---- MODULE Spec2Model ----
(***************************************************************************)
(* The tooltip engine of website/src/components/Framework.js (the bundled  *)
(* tippy build): the per-reference Tippy instance with its show/hide       *)
(* state machine, its delay timers, the deferred hide check, the Popper    *)
(* callback, the trigger handlers and the document-level click handler.    *)
(*                                                                         *)
(* An instance is a record; every method of the code is an operator from   *)
(* the instance record to the instance record, so that a method calling    *)
(* another (destroy -> hide, _enter -> show, show -> destroy) is one       *)
(* operator applied inside the other and a whole handler is one action.    *)
(* The field log holds the hooks the last action invoked on the instance,  *)
(* in order, and "destroyed" where state.destroyed was set.                *)
(***************************************************************************)
EXTENDS Integers, Sequences, FiniteSets, TLC

VARIABLES
    inst,        \* id -> instance record (Tippy object, its reference and popper)
    body,        \* the poppers mounted in the append target, in document order
    usingTouch,  \* browser.usingTouch
    thrown,      \* the error the last handler raised ("none" when it returned)
    factory,     \* the tippy() factory of the module build (see TippyCall)
    page,        \* the document and the module state of the bundled build (see Create)
    popperStyle, \* the last mousemove and the translate x it wrote (see FollowCursor)
    conv,        \* a data-tippy-* attribute and the option value made of it (see Convert)
    task,        \* a TaskProgress and the task mapped from it (see SetComplete)
    touch,       \* the input detection of bindEventListeners (see Touchstart)
    closeFile,   \* a CloseFileHandler actor, its mailbox and its replies (see Deliver)
    element,     \* the attributes of one reference element (see CreateOn)
    shared,      \* a collection's options object and its instances' (see EvaluateNext)
    reg          \* the listeners a trigger option registers, name by name (see RegisterNext)

vars == <<inst, body, usingTouch, thrown, factory, page, popperStyle, conv, task, touch, closeFile, element, shared, reg>>

(***************************************************************************)
(* Bounds of the model.                                                    *)
(***************************************************************************)
MaxDelay == 2      \* longest delay, in ticks
MaxPending == 1    \* Popper callbacks installed by _mount and not yet fired
MaxDeferred == 1   \* deferred hide checks outstanding per instance
MaxMoveL == 1      \* interactive mousemove listeners outstanding per instance
MaxCalls == 2      \* tippy() calls of the bundled build
MaxSticky == 2     \* scheduled runs of updatePosition per instance

Hooks == {"onShow", "onShown", "onHide", "onHidden"}

(***************************************************************************)
(* Browser facts (lines 150-162).                                          *)
(***************************************************************************)
supportsTouch == TRUE

supported == TRUE

(***************************************************************************)
(* Options.  delay and duration are a number or an [in, out] pair: a       *)
(* sequence of length 1 or 2.  A missing argument (undefined) is <<>>.     *)
(***************************************************************************)
defaults ==
    [ trigger |-> {"mouseenter", "focus"},
      delay |-> <<0>>,
      duration |-> <<350, 300>>,
      interactive |-> FALSE,
      hideOnClick |-> "true",
      multiple |-> FALSE,
      followCursor |-> FALSE,
      touchHold |-> FALSE,
      dynamicTitle |-> FALSE,
      sticky |-> FALSE,
      interactiveBorder |-> 2,
      distance |-> 10 ]

IsArray(v) == Len(v) = 2

getDuration(duration, index) ==
    IF IsArray(duration) THEN duration[index + 1] ELSE duration[1]

Last(q) == q[Len(q)]
Front(q) == SubSeq(q, 1, Len(q) - 1)

Log(s, e) == [s EXCEPT !.log = Append(@, e)]

(***************************************************************************)
(* createTrigger: the events a trigger name registers on the reference.    *)
(***************************************************************************)
\* createTrigger without the test for 'manual' of line 387
createTriggerNoManual(eventType, touchHold) ==
    {eventType}
    \cup (IF eventType = "mouseenter"
          THEN (IF supportsTouch /\ touchHold
                THEN {"touchstart", "touchend"} ELSE {})
               \cup {"mouseleave"}
          ELSE {})
    \cup (IF eventType = "focus" THEN {"blur"} ELSE {})

createTrigger(eventType, touchHold) ==
    IF eventType = "manual" THEN {}
    ELSE {eventType}
         \cup (IF eventType = "mouseenter"
               THEN (IF supportsTouch /\ touchHold
                     THEN {"touchstart", "touchend"} ELSE {})
                    \cup {"mouseleave"}
               ELSE {})
         \cup (IF eventType = "focus" THEN {"blur"} ELSE {})

(***************************************************************************)
(* new Tippy(config) as createTooltips leaves it (lines 811-827,           *)
(* 1549-1565): state, private store, listeners, reference attributes.      *)
(***************************************************************************)
Tippy(options, refObj, title) ==
    [ options |-> options,
      refObj |-> refObj,                  \* virtual reference (selector.refObj)
      destroyed |-> FALSE,
      enabled |-> TRUE,
      visible |-> FALSE,
      isPreparingToShow |-> FALSE,
      showTimeout |-> <<>>,               \* remaining ticks of the pending timer
      hideTimeout |-> <<>>,
      sinceEnter |-> 0,                   \* ticks since the show timer was armed
      showTimers |-> 0,                   \* setTimeout's of _enter neither fired nor cleared
      hideTimers |-> 0,                   \* setTimeout's of _leave neither fired nor cleared
      cleared |-> {},                     \* the live timers the last action cleared
      popperInstance |-> "null",          \* "null", "live", "destroyed"
      popperListening |-> FALSE,          \* Popper's own event listeners enabled
      mountCb |-> <<>>,                   \* durations of the callbacks _mount installed
      dataState |-> "hidden",             \* tooltip's data-state
      transitioning |-> FALSE,            \* a CSS transition of the tooltip is running
      transitionendListener |-> "none",   \* "none", "shown", "hidden"
      deferred |-> <<>>,                  \* durations of the deferred hide checks
      mounted |-> FALSE,                  \* options.appendTo.contains(popper)
      refListeners |-> UNION {createTrigger(t, options.touchHold) : t \in options.trigger},
      followCursorOnDoc |-> FALSE,        \* followCursorListener on document
      interactiveL |-> 0,                 \* handleMousemove/hide pairs on document/body
      attached |-> ~refObj,               \* document.documentElement.contains(reference)
      originalTitle |-> title,            \* data-original-title is set
      hasTippy |-> TRUE,                  \* reference._tippy
      stickyLoops |-> 0,                  \* scheduled runs of updatePosition
      log |-> <<>> ]

(***************************************************************************)
(* setVisibilityState on the tooltip, with the transition duration that    *)
(* applyTransitionDuration has just set: a change of data-state starts a   *)
(* CSS transition when the duration is not 0 and cancels a running one     *)
(* when it is 0.                                                           *)
(***************************************************************************)
setVisibilityState(s, type, duration) ==
    IF s.dataState = type THEN s
    ELSE [s EXCEPT !.dataState = type, !.transitioning = (duration # 0)]

(***************************************************************************)
(* The callbacks handed to _onTransitionEnd (lines 937-949, 1006-1018).    *)
(***************************************************************************)
onShownCallback(s) == Log(s, "onShown")

\* the callback of hide() without the test of state.visible (line 1007)
onHiddenCallbackNoVisibleTest(s) ==
    IF ~s.mounted THEN s
    ELSE LET s1 == IF ~s.isPreparingToShow
                   THEN [s EXCEPT !.followCursorOnDoc = FALSE] ELSE s
         IN Log([s1 EXCEPT !.popperListening = FALSE, !.mounted = FALSE], "onHidden")

onHiddenCallback(s) ==
    IF s.visible \/ ~s.mounted THEN s
    ELSE LET s1 == IF ~s.isPreparingToShow
                   THEN [s EXCEPT !.followCursorOnDoc = FALSE] ELSE s
         IN Log([s1 EXCEPT !.popperListening = FALSE, !.mounted = FALSE], "onHidden")

RunCallback(s, which) ==
    IF which = "shown" THEN onShownCallback(s) ELSE onHiddenCallback(s)

_onTransitionEnd(s, duration, which) ==
    IF duration = 0 THEN RunCallback(s, which)
    ELSE [s EXCEPT !.transitionendListener = which]

(***************************************************************************)
(* Tippy.hide (lines 961-1020): the deferred check is queued in deferred.  *)
(***************************************************************************)
\* hide() without the enabled test of line 965
hideNoEnabledGuard(s, duration) ==
    IF s.destroyed THEN s
    ELSE LET d == getDuration(IF duration # <<>> THEN duration ELSE s.options.duration, 1)
             s1 == Log(s, "onHide")
             s2 == [s1 EXCEPT !.visible = FALSE]
             s3 == setVisibilityState(s2, "hidden", d)
         IN [s3 EXCEPT !.deferred = Append(@, d)]

hide(s, duration) ==
    IF s.destroyed \/ ~s.enabled THEN s
    ELSE LET d == getDuration(IF duration # <<>> THEN duration ELSE s.options.duration, 1)
             s1 == Log(s, "onHide")
             s2 == [s1 EXCEPT !.visible = FALSE]
             s3 == setVisibilityState(s2, "hidden", d)
         IN [s3 EXCEPT !.deferred = Append(@, d)]

(***************************************************************************)
(* Tippy.destroy (lines 1029-1060).                                        *)
(***************************************************************************)
\* destroy() without the destroyed test of line 1033
destroyNoGuard(s) ==
    LET s1 == IF s.visible THEN hide(s, <<0>>) ELSE s
        s2 == [s1 EXCEPT !.refListeners = {},
                         !.originalTitle = FALSE,
                         !.hasTippy = FALSE,
                         !.popperInstance = IF @ # "null" THEN "destroyed" ELSE @]
    IN Log([s2 EXCEPT !.destroyed = TRUE], "destroyed")

destroy(s) ==
    IF s.destroyed THEN s
    ELSE LET s1 == IF s.visible THEN hide(s, <<0>>) ELSE s
             s2 == [s1 EXCEPT !.refListeners = {},
                              !.originalTitle = FALSE,
                              !.hasTippy = FALSE,
                              !.popperInstance = IF @ # "null" THEN "destroyed" ELSE @]
         IN Log([s2 EXCEPT !.destroyed = TRUE], "destroyed")

(***************************************************************************)
(* _mount (lines 1305-1332): creates the Popper or schedules an update,    *)
(* installs the callback for the next Popper pass, appends the popper.     *)
(***************************************************************************)
_mount(s, duration) ==
    LET s1 == IF s.popperInstance = "null"
              THEN [s EXCEPT !.popperInstance = "live", !.popperListening = TRUE]
              ELSE IF ~s.options.followCursor \/ usingTouch
                   THEN [s EXCEPT !.popperListening = TRUE]
                   ELSE s
    IN [s1 EXCEPT !.mountCb = Append(@, duration), !.mounted = TRUE]

(***************************************************************************)
(* The callback show() hands to _mount (lines 900-950).                    *)
(***************************************************************************)
(***************************************************************************)
(* _makeSticky (lines 1424-1451): updatePosition is deferred once and then *)
(* requests the next frame for itself while the instance is visible.       *)
(***************************************************************************)
updatePosition(s) ==
    IF s.visible THEN s ELSE [s EXCEPT !.stickyLoops = @ - 1]

_makeSticky(s) == [s EXCEPT !.stickyLoops = @ + 1]

mountCallback(s, duration) ==
    IF ~s.visible THEN s
    ELSE LET s1 == IF s.options.followCursor /\ ~usingTouch
                   THEN [s EXCEPT !.popperListening = FALSE] ELSE s
             s1b == IF s.options.sticky THEN _makeSticky(s1) ELSE s1
             s2 == setVisibilityState(s1b, "visible", duration)
         IN _onTransitionEnd(s2, duration, "shown")

(***************************************************************************)
(* Tippy.show (lines 862-951).                                             *)
(***************************************************************************)
\* show() without the destroyed test of line 866
showNoDestroyedGuard(s, duration) ==
    IF ~s.enabled THEN s
    ELSE IF s.options.dynamicTitle /\ ~s.originalTitle THEN s
    ELSE IF ~s.refObj /\ ~s.attached THEN destroy(s)
    ELSE LET d == getDuration(IF duration # <<>> THEN duration ELSE s.options.duration, 0)
             s1 == Log(s, "onShow")
             s2 == [s1 EXCEPT !.visible = TRUE]
         IN _mount(s2, d)

\* show() without the contains() test of lines 885-888
showNoContainsCheck(s, duration) ==
    IF s.destroyed \/ ~s.enabled THEN s
    ELSE IF s.options.dynamicTitle /\ ~s.originalTitle THEN s
    ELSE LET d == getDuration(IF duration # <<>> THEN duration ELSE s.options.duration, 0)
             s1 == Log(s, "onShow")
             s2 == [s1 EXCEPT !.visible = TRUE]
         IN _mount(s2, d)

show(s, duration) ==
    IF s.destroyed \/ ~s.enabled THEN s
    ELSE IF s.options.dynamicTitle /\ ~s.originalTitle THEN s
    ELSE IF ~s.refObj /\ ~s.attached THEN destroy(s)
    ELSE LET d == getDuration(IF duration # <<>> THEN duration ELSE s.options.duration, 0)
             s1 == Log(s, "onShow")
             s2 == [s1 EXCEPT !.visible = TRUE]
         IN _mount(s2, d)

(***************************************************************************)
(* _clearDelayTimeouts (lines 1339-1346).                                  *)
(***************************************************************************)
\* _clearDelayTimeouts that leaves the show timer alone
_clearDelayTimeoutsHideOnly(s) ==
    [s EXCEPT !.hideTimeout = <<>>,
              !.hideTimers = IF s.hideTimeout # <<>> THEN @ - 1 ELSE @,
              !.cleared = @ \cup (IF s.hideTimeout # <<>> THEN {"hide"} ELSE {})]

_clearDelayTimeouts(s) ==
    [s EXCEPT !.showTimeout = <<>>, !.hideTimeout = <<>>, !.sinceEnter = 0,
              !.showTimers = IF s.showTimeout # <<>> THEN @ - 1 ELSE @,
              !.hideTimers = IF s.hideTimeout # <<>> THEN @ - 1 ELSE @,
              !.cleared = @ \cup (IF s.showTimeout # <<>> THEN {"show"} ELSE {})
                            \cup (IF s.hideTimeout # <<>> THEN {"hide"} ELSE {})]

(***************************************************************************)
(* _enter (lines 1082-1114) and _leave (lines 1121-1140).  The wait option *)
(* is not among the defaults and is left unset.                            *)
(***************************************************************************)
\* _enter arming the show timer with delay[1], the hide delay
_enterDelayOut(s) ==
    LET s0 == _clearDelayTimeouts(s)
    IN IF s0.visible THEN s0
       ELSE LET s1 == [s0 EXCEPT !.isPreparingToShow = TRUE]
                s2 == IF s1.options.followCursor /\ ~usingTouch
                      THEN [s1 EXCEPT !.followCursorOnDoc = TRUE] ELSE s1
                delay == IF IsArray(s2.options.delay)
                         THEN s2.options.delay[2] ELSE s2.options.delay[1]
            IN IF delay # 0
               THEN [s2 EXCEPT !.showTimeout = <<delay>>, !.showTimers = @ + 1]
               ELSE show(s2, <<>>)

\* _enter that returns at once while its show timer is pending
_enterKeepsTimer(s) ==
    IF s.showTimeout # <<>> THEN s
    ELSE LET s0 == _clearDelayTimeouts(s)
         IN IF s0.visible THEN s0
            ELSE LET s1 == [s0 EXCEPT !.isPreparingToShow = TRUE]
                     s2 == IF s1.options.followCursor /\ ~usingTouch
                           THEN [s1 EXCEPT !.followCursorOnDoc = TRUE] ELSE s1
                     delay == s2.options.delay[1]
                 IN IF delay # 0
                    THEN [s2 EXCEPT !.showTimeout = <<delay>>, !.showTimers = @ + 1]
                    ELSE show(s2, <<>>)

_enter(s) ==
    LET s0 == _clearDelayTimeouts(s)
    IN IF s0.visible THEN s0
       ELSE LET s1 == [s0 EXCEPT !.isPreparingToShow = TRUE]
                s2 == IF s1.options.followCursor /\ ~usingTouch
                      THEN [s1 EXCEPT !.followCursorOnDoc = TRUE] ELSE s1
                delay == s2.options.delay[1]
            IN IF delay # 0
               THEN [s2 EXCEPT !.showTimeout = <<delay>>, !.showTimers = @ + 1]
               ELSE show(s2, <<>>)

_leave(s) ==
    LET s0 == _clearDelayTimeouts(s)
    IN IF ~s0.visible THEN s0
       ELSE LET s1 == [s0 EXCEPT !.isPreparingToShow = FALSE]
                delay == IF IsArray(s1.options.delay)
                         THEN s1.options.delay[2] ELSE s1.options.delay[1]
            IN IF delay # 0
               THEN [s1 EXCEPT !.hideTimeout = <<delay>>, !.hideTimers = @ + 1]
               ELSE hide(s1, <<>>)

(***************************************************************************)
(* The timer callbacks (lines 1108-1110, 1133-1136).                       *)
(***************************************************************************)
showTimeoutCallback(s) ==
    show([s EXCEPT !.showTimeout = <<>>, !.showTimers = @ - 1], <<>>)

hideTimeoutCallback(s) ==
    LET s0 == [s EXCEPT !.hideTimeout = <<>>, !.hideTimers = @ - 1]
    IN IF ~s0.visible THEN s0 ELSE hide(s0, <<>>)

(***************************************************************************)
(* _getEventListeners (lines 1148-1214).  iOS is taken to be false.        *)
(***************************************************************************)
\* handleTrigger without the 'persistent' test of line 1161
handleTriggerNoPersistent(s, type) ==
    IF ~s.enabled THEN s
    ELSE LET shouldStopEvent == supportsTouch /\ usingTouch /\ type \in {"mouseenter", "focus"}
         IN IF shouldStopEvent /\ s.options.touchHold THEN s
            ELSE IF type = "click" /\ s.visible
                 THEN _leave(s)
                 ELSE _enter(s)

handleTrigger(s, type) ==
    IF ~s.enabled THEN s
    ELSE LET shouldStopEvent == supportsTouch /\ usingTouch /\ type \in {"mouseenter", "focus"}
         IN IF shouldStopEvent /\ s.options.touchHold THEN s
            ELSE IF type = "click" /\ s.options.hideOnClick # "persistent" /\ s.visible
                 THEN _leave(s)
                 ELSE _enter(s)

handleMouseleave(s, type) ==
    IF type = "mouseleave" /\ supportsTouch /\ usingTouch /\ s.options.touchHold THEN s
    ELSE IF s.options.interactive
         THEN [s EXCEPT !.interactiveL = @ + 1]
         ELSE _leave(s)

(***************************************************************************)
(* cursorIsOutsideInteractiveBorder (lines 573-609; utils.js 580-613).     *)
(* placement is the side x-placement names, "none" when the attribute is   *)
(* missing; rect is the popper's getBoundingClientRect().                   *)
(***************************************************************************)
\* the same test with the plain border on every side
cursorIsOutsideNoDistance(x, y, placement, rect, options) ==
    IF placement = "none" THEN TRUE
    ELSE LET interactiveBorder == options.interactiveBorder
         IN \/ rect.top - y > interactiveBorder
            \/ y - rect.bottom > interactiveBorder
            \/ rect.left - x > interactiveBorder
            \/ x - rect.right > interactiveBorder

cursorIsOutsideInteractiveBorder(x, y, placement, rect, options) ==
    IF placement = "none" THEN TRUE
    ELSE LET interactiveBorder == options.interactiveBorder
             borderWithDistance == interactiveBorder + options.distance
             exceeds ==
                 [ top |-> rect.top - y >
                             (IF placement = "top" THEN borderWithDistance ELSE interactiveBorder),
                   bottom |-> y - rect.bottom >
                             (IF placement = "bottom" THEN borderWithDistance ELSE interactiveBorder),
                   left |-> rect.left - x >
                             (IF placement = "left" THEN borderWithDistance ELSE interactiveBorder),
                   right |-> x - rect.right >
                             (IF placement = "right" THEN borderWithDistance ELSE interactiveBorder) ]
         IN exceeds.top \/ exceeds.bottom \/ exceeds.left \/ exceeds.right

RECURSIVE Times(_, _)
Times(s, n) == IF n = 0 THEN s ELSE Times(_leave(s), n - 1)

\* every handleMousemove closure on document sees the same event
handleMousemove(s, cursorIsOverPopper, cursorIsOverReference, isOutside) ==
    IF cursorIsOverPopper \/ cursorIsOverReference THEN s
    ELSE IF isOutside
         THEN Times([s EXCEPT !.interactiveL = 0], s.interactiveL)
         ELSE s

\* the hide listeners on document.body (line 1194), one per closure
bodyMouseleave(s) == Times(s, s.interactiveL)

handleBlur(s, relatedTarget) ==
    IF relatedTarget = "none" \/ usingTouch THEN s
    ELSE IF relatedTarget = "popper" THEN s
    ELSE _leave(s)

(***************************************************************************)
(* enable / disable (lines 837-852).                                       *)
(***************************************************************************)
enable(s) == [s EXCEPT !.enabled = TRUE]

\* disable() that also hides the tooltip
disableHides(s) == [s EXCEPT !.enabled = FALSE, !.visible = FALSE]

disable(s) == [s EXCEPT !.enabled = FALSE]

(***************************************************************************)
(* hideAllPoppers (lines 1604-1616) over the poppers found in the          *)
(* document, in document order.  destroy() deletes reference._tippy, so a  *)
(* popper still mounted after its instance was destroyed makes the read of *)
(* tippy.options raise a TypeError, which ends the loop.                   *)
(***************************************************************************)
\* hideAllPoppers without the excludeTippy test of line 1612
RECURSIVE hideAllPoppersNoExclude(_, _, _)
hideAllPoppersNoExclude(r, poppers, excludeTippy) ==
    IF poppers = <<>> THEN r
    ELSE LET p == Head(poppers)
             tippy == r.inst[p]
         IN IF ~tippy.hasTippy THEN [r EXCEPT !.thrown = "TypeError"]
            ELSE LET options == tippy.options
                     r1 == IF options.hideOnClick = "true" \/ "focus" \in options.trigger
                           THEN [r EXCEPT !.inst[p] = hide(tippy, <<>>)]
                           ELSE r
                 IN hideAllPoppersNoExclude(r1, Tail(poppers), excludeTippy)

RECURSIVE hideAllPoppers(_, _, _)
hideAllPoppers(r, poppers, excludeTippy) ==
    IF poppers = <<>> THEN r
    ELSE LET p == Head(poppers)
             tippy == r.inst[p]
         IN IF ~tippy.hasTippy THEN [r EXCEPT !.thrown = "TypeError"]
            ELSE LET options == tippy.options
                     r1 == IF (options.hideOnClick = "true" \/ "focus" \in options.trigger)
                              /\ p # excludeTippy
                           THEN [r EXCEPT !.inst[p] = hide(tippy, <<>>)]
                           ELSE r
                 IN hideAllPoppers(r1, Tail(poppers), excludeTippy)

(***************************************************************************)
(* clickHandler (lines 1658-1684).  target.kind is "simulated" (not an     *)
(* Element), "outside", "reference" or "popper"; target.id names the       *)
(* instance of the reference or popper.  A destroyed instance's reference  *)
(* no longer carries data-tippy, so closest() does not find it.            *)
(***************************************************************************)
\* clickHandler without the multiple test of lines 1676-1678
clickHandlerNoExclusive(r, target) ==
    IF target.kind = "simulated" THEN hideAllPoppers(r, body, "none")
    ELSE LET reference == IF target.kind = "reference" /\ r.inst[target.id].hasTippy
                          THEN target.id ELSE "none"
             popper == IF target.kind = "popper" THEN target.id ELSE "none"
         IN IF popper # "none" /\ ~r.inst[popper].hasTippy
            THEN [r EXCEPT !.thrown = "TypeError"]
            ELSE IF popper # "none" /\ r.inst[popper].options.interactive THEN r
            ELSE IF reference # "none"
                 THEN LET options == r.inst[reference].options
                      IN IF options.hideOnClick # "true" \/ "click" \in options.trigger
                         THEN r
                         ELSE hideAllPoppers(r, body, "none")
                 ELSE hideAllPoppers(r, body, "none")

\* clickHandler without the return of line 1667 for an interactive popper
clickHandlerNoInteractive(r, target) ==
    IF target.kind = "simulated" THEN hideAllPoppers(r, body, "none")
    ELSE LET reference == IF target.kind = "reference" /\ r.inst[target.id].hasTippy
                          THEN target.id ELSE "none"
             popper == IF target.kind = "popper" THEN target.id ELSE "none"
         IN IF popper # "none" /\ ~r.inst[popper].hasTippy
            THEN [r EXCEPT !.thrown = "TypeError"]
            ELSE IF reference # "none"
                 THEN LET options == r.inst[reference].options
                      IN IF (~options.multiple /\ usingTouch)
                            \/ (~options.multiple /\ "click" \in options.trigger)
                         THEN hideAllPoppers(r, body, reference)
                         ELSE IF options.hideOnClick # "true" \/ "click" \in options.trigger
                              THEN r
                              ELSE hideAllPoppers(r, body, "none")
                 ELSE hideAllPoppers(r, body, "none")

clickHandler(r, target) ==
    IF target.kind = "simulated" THEN hideAllPoppers(r, body, "none")
    ELSE LET reference == IF target.kind = "reference" /\ r.inst[target.id].hasTippy
                          THEN target.id ELSE "none"
             popper == IF target.kind = "popper" THEN target.id ELSE "none"
         IN IF popper # "none" /\ ~r.inst[popper].hasTippy
            THEN [r EXCEPT !.thrown = "TypeError"]
            ELSE IF popper # "none" /\ r.inst[popper].options.interactive THEN r
            ELSE IF reference # "none"
                 THEN LET options == r.inst[reference].options
                      IN IF (~options.multiple /\ usingTouch)
                            \/ (~options.multiple /\ "click" \in options.trigger)
                         THEN hideAllPoppers(r, body, reference)
                         ELSE IF options.hideOnClick # "true" \/ "click" \in options.trigger
                              THEN r
                              ELSE hideAllPoppers(r, body, "none")
                 ELSE hideAllPoppers(r, body, "none")

(***************************************************************************)
(* Actions.  Every action clears the logs, runs one handler to its end and *)
(* brings the document order of the mounted poppers up to date.             *)
(***************************************************************************)
ResetLog == [i \in DOMAIN inst |-> [inst[i] EXCEPT !.log = <<>>, !.cleared = {}]]

WithinBounds(f) ==
    \A i \in DOMAIN f : /\ Len(f[i].mountCb) <= MaxPending
                        /\ Len(f[i].deferred) <= MaxDeferred
                        /\ f[i].interactiveL <= MaxMoveL
                        /\ f[i].stickyLoops
                             + (IF f[i].options.sticky THEN Len(f[i].mountCb) ELSE 0)
                               <= MaxSticky

RECURSIVE Keep(_, _)
Keep(q, f) ==
    IF q = <<>> THEN <<>>
    ELSE IF f[Head(q)].mounted THEN <<Head(q)>> \o Keep(Tail(q), f) ELSE Keep(Tail(q), f)

RECURSIVE Appended(_, _)
Appended(q, new) ==
    IF new = {} THEN q
    ELSE LET i == CHOOSE j \in new : TRUE IN Appended(Append(q, i), new \ {i})

InBody(i) == \E k \in 1..Len(body) : body[k] = i

Step(f, th) ==
    /\ WithinBounds(f)
    /\ inst' = f
    /\ body' = Appended(Keep(body, f), {i \in DOMAIN f : f[i].mounted /\ ~InBody(i)})
    /\ thrown' = th
    /\ UNCHANGED <<usingTouch, factory, page, popperStyle, conv, task, touch, closeFile, element, shared, reg>>

On(i, s) == Step([ResetLog EXCEPT ![i] = s], "none")

Durations == {<<>>, <<0>>}

EventTypes == {"mouseenter", "focus", "touchstart", "mouseleave", "touchend"}

Show(i, duration) == On(i, show(ResetLog[i], duration))

Hide(i, duration) == On(i, hide(ResetLog[i], duration))

Destroy(i) == On(i, destroy(ResetLog[i]))

Enable(i) == On(i, enable(ResetLog[i]))

Disable(i) == On(i, disable(ResetLog[i]))

\* an event of a type registered on the reference (createTrigger)
RefEvent(i, type) ==
    /\ type \in inst[i].refListeners
    /\ inst[i].attached
    /\ type # "click"
    /\ On(i, IF type \in {"mouseenter", "focus", "touchstart"}
             THEN handleTrigger(ResetLog[i], type)
             ELSE IF type \in {"mouseleave", "touchend"}
             THEN handleMouseleave(ResetLog[i], type)
             ELSE ResetLog[i])

Blur(i, relatedTarget) ==
    /\ "blur" \in inst[i].refListeners
    /\ inst[i].attached
    /\ On(i, handleBlur(ResetLog[i], relatedTarget))

\* a click: the reference's own click listener first, then the document's
Click(target) ==
    /\ target.kind = "reference" => inst[target.id].attached /\ ~inst[target.id].refObj
    /\ target.kind = "popper" => inst[target.id].mounted
    /\ target.kind \in {"simulated", "outside"} => target.id = "none"
    /\ LET f0 == [i \in DOMAIN inst |-> ResetLog[i]]
           f1 == IF target.kind = "reference" /\ "click" \in inst[target.id].refListeners
                 THEN [f0 EXCEPT ![target.id] = handleTrigger(@, "click")]
                 ELSE f0
           r == clickHandler([inst |-> f1, thrown |-> "none"], target)
       IN Step(r.inst, r.thrown)

Targets ==
    [kind : {"simulated", "outside"}, id : {"none"}]
    \cup [kind : {"reference", "popper"}, id : DOMAIN inst]

\* a mousemove on the document, seen by every interactive closure
MouseMove(where) ==
    /\ \E i \in DOMAIN inst : inst[i].interactiveL > 0
    /\ Step([i \in DOMAIN inst |->
               handleMousemove(ResetLog[i],
                               where[i] = "popper", where[i] = "reference",
                               where[i] = "outside")], "none")

BodyMouseleave ==
    /\ \E i \in DOMAIN inst : inst[i].interactiveL > 0
    /\ Step([i \in DOMAIN inst |-> bodyMouseleave(ResetLog[i])], "none")

ShowTimeoutFire(i) ==
    /\ inst[i].showTimeout = <<0>>
    /\ On(i, showTimeoutCallback(ResetLog[i]))

HideTimeoutFire(i) ==
    /\ inst[i].hideTimeout = <<0>>
    /\ On(i, hideTimeoutCallback(ResetLog[i]))

Dec(t) == IF t = <<>> THEN t ELSE <<t[1] - 1>>

Tick ==
    /\ \E i \in DOMAIN inst : inst[i].showTimeout # <<>> \/ inst[i].hideTimeout # <<>>
    /\ \A i \in DOMAIN inst : inst[i].showTimeout # <<0>> /\ inst[i].hideTimeout # <<0>>
    /\ Step([i \in DOMAIN inst |->
               [ResetLog[i] EXCEPT !.showTimeout = Dec(@),
                                   !.hideTimeout = Dec(@),
                                   !.sinceEnter = IF inst[i].showTimeout # <<>>
                                                  THEN @ + 1 ELSE @]], "none")

\* a pass of the Popper (creation or update): fires the callback on top
PopperUpdate(i) ==
    /\ inst[i].popperInstance = "live"
    /\ inst[i].mountCb # <<>>
    /\ On(i, mountCallback([ResetLog[i] EXCEPT !.mountCb = Front(@)],
                           Last(inst[i].mountCb)))

\* defer(fn) of hide(): the next frame, then a timeout
DeferredRun(i) ==
    /\ inst[i].deferred # <<>>
    /\ On(i, _onTransitionEnd([ResetLog[i] EXCEPT !.deferred = Tail(@)],
                              Head(inst[i].deferred), "hidden"))

\* the transitionend event of the tooltip
TransitionEnd(i) ==
    /\ inst[i].transitioning
    /\ LET s == [ResetLog[i] EXCEPT !.transitioning = FALSE]
       IN On(i, IF s.transitionendListener = "none" THEN s
                ELSE RunCallback([s EXCEPT !.transitionendListener = "none"],
                                 s.transitionendListener))

\* the frame (or the deferred first run) of a scheduled updatePosition
StickyFrame(i) ==
    /\ inst[i].stickyLoops > 0
    /\ On(i, updatePosition(ResetLog[i]))

\* the reference is removed from the document
Detach(i) ==
    /\ inst[i].attached /\ ~inst[i].refObj
    /\ On(i, [ResetLog[i] EXCEPT !.attached = FALSE])

\* dynamicTitle: the mutation observer sees a new title (lines 1568-1586)
TitleMutation(i) ==
    /\ inst[i].options.dynamicTitle /\ ~inst[i].destroyed /\ ~inst[i].originalTitle
    /\ On(i, [ResetLog[i] EXCEPT !.originalTitle = TRUE])

\* touchHandler and mousemoveHandler (lines 1622-1656)
TouchStart ==
    /\ ~usingTouch
    /\ usingTouch' = TRUE
    /\ inst' = ResetLog /\ thrown' = "none"
    /\ UNCHANGED <<body, factory, page, popperStyle, conv, task, touch, closeFile, element, shared, reg>>

MouseMovesClose ==
    /\ usingTouch
    /\ usingTouch' = FALSE
    /\ inst' = ResetLog /\ thrown' = "none"
    /\ UNCHANGED <<body, factory, page, popperStyle, conv, task, touch, closeFile, element, shared, reg>>

(***************************************************************************)
(* The instances a tippy() call creates: the option sets the references of *)
(* a collection can resolve to (data-tippy-* attributes make them differ   *)
(* inside one collection), a virtual reference, and a dynamicTitle         *)
(* reference created without a title.                                      *)
(***************************************************************************)
Element(options) == [options |-> options, refObj |-> FALSE, title |-> TRUE]

Profiles ==
    { Element(defaults),
      Element([defaults EXCEPT !.delay = <<MaxDelay, 1>>, !.duration = <<0>>]),
      Element([defaults EXCEPT !.trigger = {"click"}, !.duration = <<0>>]),
      Element([defaults EXCEPT !.trigger = {"click"}, !.delay = <<1>>, !.duration = <<0>>]),
      Element([defaults EXCEPT !.trigger = {"click", "mouseenter"}, !.duration = <<0>>,
                               !.hideOnClick = "persistent", !.multiple = TRUE,
                               !.interactive = TRUE, !.followCursor = TRUE]),
      [options |-> [defaults EXCEPT !.trigger = {"manual"}, !.dynamicTitle = TRUE,
                                    !.hideOnClick = "false", !.duration = <<0>>],
       refObj |-> FALSE, title |-> FALSE],
      [options |-> [defaults EXCEPT !.trigger = {"manual"}, !.followCursor = TRUE,
                                    !.duration = <<0>>],
       refObj |-> TRUE, title |-> TRUE] }

\* two references of one collection; no delay, no transition
ClickOnly == Element([defaults EXCEPT !.trigger = {"click"}, !.duration = <<0>>])

PairCollections ==
    { <<ClickOnly, ClickOnly>>,
      <<Element([defaults EXCEPT !.duration = <<0>>]), ClickOnly>> }

(***************************************************************************)
(* JavaScript values as the option code sees them: a type tag and the      *)
(* text of the value.  null and undefined are Null and Undefined.          *)
(***************************************************************************)
Str(s) == [type |-> "string", v |-> s]

Bool(b) == [type |-> "boolean", v |-> IF b THEN "true" ELSE "false"]

Num(s) == [type |-> "number", v |-> s]

Null == [type |-> "null", v |-> ""]

Undefined == [type |-> "undefined", v |-> ""]

NumericStrings == {"0", "5", "100"}

ArrayStrings == {"[100, 50]"}

\* ToBoolean
Truthy(val) ==
    CASE val.type = "string" -> val.v # ""
      [] val.type = "boolean" -> val.v = "true"
      [] val.type = "number" -> val.v # "0"
      [] val.type = "array" -> TRUE
      [] OTHER -> FALSE

\* _extends({}, a, b) (lines 461-473)
_extends(a, b) ==
    [k \in DOMAIN a \cup DOMAIN b |-> IF k \in DOMAIN b THEN b[k] ELSE a[k]]

\* the defaults (lines 179-218) of the keys the option code is run on
defaultsRaw ==
    [ trigger |-> Str("mouseenter focus"),
      delay |-> Num("0"),
      html |-> Bool(FALSE),
      performance |-> Bool(FALSE),
      dynamicTitle |-> Bool(FALSE) ]

defaultsKeys == DOMAIN defaultsRaw

(***************************************************************************)
(* The conversions of getIndividualOptions (lines 485-496): "true" and     *)
(* "false" to booleans, number strings to numbers, strings that start with *)
(* "[" to arrays.                                                          *)
(***************************************************************************)
\* strings isFinite() accepts and parseFloat() reads as 0: hexadecimal text
HexStrings == {"0x10"}

\* strings that begin with "[" and are no JSON text
BracketStrings == {"[data-x]"}

\* an uncaught SyntaxError of JSON.parse
SyntaxError == [type |-> "SyntaxError", v |-> ""]

\* JSON.parse(text)
JSONparse(text) ==
    CASE text = "true" -> Bool(TRUE)
      [] text = "false" -> Bool(FALSE)
      [] text = "null" -> Null
      [] text \in NumericStrings -> Num(text)
      [] text \in ArrayStrings -> [type |-> "array", v |-> text]
      [] OTHER -> SyntaxError

convert(val) ==
    IF val = Str("false") THEN Bool(FALSE)
    ELSE IF val = Str("true") THEN Bool(TRUE)
    ELSE IF val.type = "string" /\ val.v \in NumericStrings THEN Num(val.v)
    ELSE IF val.type = "string" /\ val.v \in HexStrings THEN Num("0")
    ELSE IF val.type = "string" /\ val.v \in ArrayStrings \cup BracketStrings
         THEN JSONparse(val.v)
    ELSE val

\* reference.getAttribute('data-tippy-' + key.toLowerCase())
getAttribute(reference, key) ==
    IF key \in DOMAIN reference.attrs THEN Str(reference.attrs[key]) ELSE Null

\* getIndividualOptions reading the attribute only where the options given
\* have no truthy value
getIndividualOptionsCallerFirst(reference, instanceOptions) ==
    LET options == [key \in defaultsKeys |->
                      LET attr == getAttribute(reference, key)
                      IN convert(IF key \in DOMAIN instanceOptions
                                    /\ Truthy(instanceOptions[key])
                                 THEN instanceOptions[key]
                                 ELSE IF Truthy(attr) THEN attr
                                 ELSE IF key \in DOMAIN instanceOptions
                                      THEN instanceOptions[key] ELSE Undefined)]
    IN _extends(instanceOptions, options)

\* getIndividualOptions (lines 481-505):
\* val = reference.getAttribute('data-tippy-' + key) || instanceOptions[key]
getIndividualOptions(reference, instanceOptions) ==
    LET options == [key \in defaultsKeys |->
                      LET attr == getAttribute(reference, key)
                      IN convert(IF Truthy(attr) THEN attr
                                 ELSE IF key \in DOMAIN instanceOptions
                                      THEN instanceOptions[key] ELSE Undefined)]
    IN _extends(instanceOptions, options)

(***************************************************************************)
(* getDataAttributeOptions of the module build (utils.js, lines 272-293)   *)
(* and of reference.js (lines 10-32), for one key: the value put in        *)
(* acc[key], Undefined when the key is left out.                           *)
(***************************************************************************)
\* isNumeric (utils.js, line 106)
isNumeric(value) == value \in NumericStrings \cup HexStrings \cup {"Infinity"}

\* Number(valueAsString) of a numeric string
Number(value) == IF value \in HexStrings THEN "16" ELSE value

getDataAttributeOptions(key, valueAsString) ==
    IF valueAsString = "" THEN Undefined
    ELSE IF valueAsString = "true" THEN Bool(TRUE)
    ELSE IF valueAsString = "false" THEN Bool(FALSE)
    ELSE IF isNumeric(valueAsString) THEN Num(Number(valueAsString))
    ELSE IF key # "target" /\ valueAsString \in ArrayStrings \cup BracketStrings
         THEN JSONparse(valueAsString)
    ELSE Str(valueAsString)

getDataAttributeOptionsReference(key, valueAsString) ==
    IF valueAsString = "" THEN Undefined
    ELSE IF key = "content" THEN Str(valueAsString)
    ELSE IF JSONparse(valueAsString) = SyntaxError THEN Str(valueAsString)
    ELSE JSONparse(valueAsString)

\* the attribute texts the conversions are run on
AttributeStrings ==
    {"", "true", "false", "click", "null", "Infinity"}
    \cup NumericStrings \cup HexStrings \cup ArrayStrings \cup BracketStrings

\* keys of the defaults of the module build that the conversions name
DataAttributeKeys == {"delay", "trigger", "target", "content"}

\* the conversion functions and the keys each is run on
ConvertInputs ==
    [fn : {"getIndividualOptions"}, key : defaultsKeys,
     valueAsString : AttributeStrings, done : {FALSE}, result : {Undefined}]
    \cup [fn : {"getDataAttributeOptions", "getDataAttributeOptionsReference"},
          key : DataAttributeKeys,
          valueAsString : AttributeStrings, done : {FALSE}, result : {Undefined}]

(***************************************************************************)
(* The document tippy() is called on: four elements in document order,     *)
(* the last without a title, two with data-tippy-* attributes.             *)
(***************************************************************************)
Document == <<"e1", "e2", "e3", "e4">>

Elements ==
    [ e1 |-> [title |-> "t", attrs |-> <<>>, refObj |-> FALSE],
      e2 |-> [title |-> "t", attrs |-> [trigger |-> "click", delay |-> "5"], refObj |-> FALSE],
      e3 |-> [title |-> "t", attrs |-> [dynamicTitle |-> "false", delay |-> ""], refObj |-> FALSE],
      e4 |-> [title |-> "", attrs |-> <<>>, refObj |-> FALSE] ]

\* the selector argument: a match pattern, a string that is no selector, an
\* element, an array, or an object literal with or without a title
Selectors ==
    [kind : {"pattern"}, els : {<<>>, <<"e1", "e2", "e3">>, Document}, title : {""}]
    \cup {[kind |-> "invalid", els |-> <<>>, title |-> ""],
          [kind |-> "element", els |-> <<"e4">>, title |-> ""],
          [kind |-> "array", els |-> <<"e3", "e1">>, title |-> ""]}
    \cup [kind : {"object"}, els : {<<>>}, title : {"", "t"}]

\* the options argument
Supplied ==
    { <<>>,
      [trigger |-> Str("manual"), delay |-> Str("[100, 50]")],
      [trigger |-> Str("click"), dynamicTitle |-> Bool(TRUE)],
      [trigger |-> Str("manual"), performance |-> Bool(TRUE)] }

isObjectLiteral(selector) == selector.kind = "object"

\* the reference an entry of the element array stands for; the object
\* literal is the one tippy() has given refObj and the attribute methods
Reference(name, selector) ==
    IF name = "virtual"
    THEN [title |-> selector.title, attrs |-> <<>>, refObj |-> TRUE]
    ELSE Elements[name]

\* getArrayOfElements with no try around querySelectorAll
getArrayOfElementsNoCatch(selector) ==
    IF isObjectLiteral(selector) THEN [els |-> <<"virtual">>, threw |-> FALSE]
    ELSE IF selector.kind \in {"element", "nodelist", "array"}
         THEN [els |-> selector.els, threw |-> FALSE]
    ELSE IF selector.kind = "invalid" THEN [els |-> <<>>, threw |-> TRUE]
    ELSE [els |-> selector.els, threw |-> FALSE]

\* getArrayOfElements of the bundled build (lines 240-258)
getArrayOfElementsV2(selector) ==
    IF isObjectLiteral(selector) THEN [els |-> <<"virtual">>, threw |-> FALSE]
    ELSE IF selector.kind \in {"element", "nodelist", "array"}
         THEN [els |-> selector.els, threw |-> FALSE]
    ELSE IF selector.kind = "invalid" THEN [els |-> <<>>, threw |-> FALSE]
    ELSE [els |-> selector.els, threw |-> FALSE]

\* options.trigger.trim().split(' ') (line 1562)
split(trigger) ==
    CASE trigger = "manual" -> {"manual"}
      [] trigger = "click" -> {"click"}
      [] trigger = "mouseenter focus" -> {"mouseenter", "focus"}

\* milliseconds in ticks
ticks(ms) == CASE ms = "0" -> 0 [] ms = "5" -> 1 [] ms = "100" -> MaxDelay

\* the options of the instance as the engine reads them
toOptions(options) ==
    [defaults EXCEPT !.trigger = split(options.trigger.v),
                     !.delay = IF options.delay.type = "array"
                               THEN <<MaxDelay, 1>> ELSE <<ticks(options.delay.v)>>,
                     !.dynamicTitle = Truthy(options.dynamicTitle)]

(***************************************************************************)
(* The tippy() factory of the module build (unnamed/part_004, lines        *)
(* 103-143).  Defaults and createTippy are imported from files that are    *)
(* not part of the sources: Defaults is a sample of the recognised keys,   *)
(* createTippy makes one instance for its reference and marks the          *)
(* reference with it.                                                      *)
(***************************************************************************)
Defaults == [key \in {"delay", "trigger"} |-> "default"]

SuppliedKeys == {"delay", "trigger", "foo"}

SuppliedOptions ==
    UNION {[K -> {"supplied"}] : K \in SUBSET SuppliedKeys}

\* a match pattern or list resolving to these elements, or a plain object
\* own: the plain object has an attributes field; attributes: its keys
AttributeKeys == {"title"}

TargetSpecs ==
    [kind : {"elements"},
     refs : {<<>>, <<"r1">>, <<"r2">>, <<"r3">>, <<"r1", "r2">>, <<"r1", "r2", "r3">>},
     own : {FALSE}, attributes : {{}}]
    \cup [kind : {"object"}, refs : {<<>>}, own : {FALSE}, attributes : {{}}]
    \cup [kind : {"object"}, refs : {<<>>}, own : {TRUE}, attributes : SUBSET AttributeKeys]

isPlainObject(targets) == targets.kind = "object"

(***************************************************************************)
(* polyfillVirtualReferenceProps (utils.js, lines 298-324): a new object.  *)
(* Its attributes field is the plain object's own one when it has one      *)
(* (own), else a fresh {}; the attribute methods close over the plain      *)
(* object (virtualReference) and over an undeclared name (out).            *)
(***************************************************************************)
polyfillVirtualReferenceProps(virtualReference) ==
    [ kind |-> "virtual",
      refs |-> <<>>,
      isVirtual |-> TRUE,
      own |-> virtualReference.own,
      attributes |-> virtualReference.attributes,
      classNames |-> {},
      raised |-> "none" ]

\* no virtual reference made yet
virtualInit ==
    [ kind |-> "none", refs |-> <<>>, isVirtual |-> FALSE, own |-> FALSE,
      attributes |-> {}, classNames |-> {}, raised |-> "none" ]

ReferenceOps ==
    {"setAttribute", "getAttribute", "removeAttribute",
     "classList.add", "classList.remove", "classList.contains"}

ClassNames == {"c"}

\* one call of a method of the polyfilled reference (utils.js, lines 302-320)
referenceCall(reference, op, key) ==
    CASE op = "setAttribute" ->
           \* out.attributes[key] = value: out is declared nowhere
           [reference EXCEPT !.raised = "ReferenceError"]
      [] op = "getAttribute" ->
           \* virtualReference.attributes[key]
           [reference EXCEPT !.raised = IF reference.own THEN "none" ELSE "TypeError"]
      [] op = "removeAttribute" ->
           \* delete virtualReference.attributes[key]
           IF reference.own
           THEN [reference EXCEPT !.raised = "none", !.attributes = @ \ {key}]
           ELSE [reference EXCEPT !.raised = "TypeError"]
      [] op = "classList.add" ->
           [reference EXCEPT !.raised = "none", !.classNames = @ \cup {key}]
      [] op = "classList.remove" ->
           [reference EXCEPT !.raised = "none", !.classNames = @ \ {key}]
      [] op = "classList.contains" ->
           [reference EXCEPT !.raised = "none"]

getArrayOfElements(targets) ==
    IF targets.kind = "virtual" THEN <<"virtual">> ELSE targets.refs

createTippy(reference, options) == [reference |-> reference, options |-> options]

factoryInit ==
    [ eventListenersBound |-> FALSE,
      hasTippy |-> {},            \* the references createTippy has marked
      threw |-> FALSE,            \* the last call raised an Error
      instances |-> <<>>,         \* the instances of the last call's collection
      virtual |-> virtualInit ]   \* the last polyfilled virtual reference

\* tippy() checking the keys only after the instances are made
tippyValidatesLast(f, targets, suppliedOptions, one) ==
    LET f1 == [f EXCEPT !.eventListenersBound = TRUE]
        options == [key \in DOMAIN Defaults \cup DOMAIN suppliedOptions |->
                      IF key \in DOMAIN suppliedOptions
                      THEN suppliedOptions[key] ELSE Defaults[key]]
        targets1 == IF isPlainObject(targets)
                    THEN polyfillVirtualReferenceProps(targets) ELSE targets
        references == getArrayOfElements(targets1)
        chosen == IF one /\ references # <<>> THEN <<references[1]>> ELSE references
    IN [f1 EXCEPT !.threw = \E key \in DOMAIN suppliedOptions : key \notin DOMAIN Defaults,
                  !.virtual = IF isPlainObject(targets) THEN targets1 ELSE @,
                  !.instances = [k \in 1..Len(chosen) |-> createTippy(chosen[k], options)],
                  !.hasTippy = @ \cup {chosen[k] : k \in 1..Len(chosen)}]

tippy(f, targets, suppliedOptions, one) ==
    LET f1 == [f EXCEPT !.eventListenersBound = TRUE]
    IN IF \E key \in DOMAIN suppliedOptions : key \notin DOMAIN Defaults
       THEN [f1 EXCEPT !.threw = TRUE, !.instances = <<>>]
       ELSE LET options == [key \in DOMAIN Defaults \cup DOMAIN suppliedOptions |->
                              IF key \in DOMAIN suppliedOptions
                              THEN suppliedOptions[key] ELSE Defaults[key]]
                targets1 == IF isPlainObject(targets)
                            THEN polyfillVirtualReferenceProps(targets) ELSE targets
                references == getArrayOfElements(targets1)
                chosen == IF one /\ references # <<>> THEN <<references[1]>> ELSE references
            IN [f1 EXCEPT !.threw = FALSE,
                          !.virtual = IF isPlainObject(targets) THEN targets1 ELSE @,
                          !.instances = [k \in 1..Len(chosen) |->
                                           createTippy(chosen[k], options)],
                          !.hasTippy = @ \cup {chosen[k] : k \in 1..Len(chosen)}]

(***************************************************************************)
(* The module state of the bundled build before the first tippy() call     *)
(* (lines 150-162, 1521) and the popper's style before the first           *)
(* mousemove.                                                              *)
(***************************************************************************)
convInit ==
    [ fn |-> "none", key |-> "", valueAsString |-> "", done |-> FALSE,
      result |-> Undefined ]

(***************************************************************************)
(* TaskProgress.map as MappedTaskSpec.scala drives it: task1 is a          *)
(* TaskProgressImplementation, task2 = task1.map(appendBar), the function   *)
(* counting its runs.  A Try is <<>> (none yet) or <<value>>.              *)
(***************************************************************************)
MaxListeners == 4

Results == {"foo", "baz", "qux"}

\* str + "bar"
appendBar(str) ==
    CASE str = "foo" -> "foobar"
      [] str = "baz" -> "bazbar"
      [] str = "qux" -> "quxbar"

taskInit ==
    [ made |-> FALSE,        \* task2 exists
      result |-> <<>>,       \* what task1 was completed with
      runs |-> 0,
      savedResult |-> <<>>,  \* the mapped result task2 keeps
      listeners |-> <<>> ]   \* task2's listeners: kind and the results done() got

\* the mapped task is completed: the function runs, the result is kept and handed out
complete(tk, value) ==
    [tk EXCEPT !.runs = @ + 1,
               !.savedResult = <<appendBar(value)>>,
               !.listeners = [k \in DOMAIN @ |->
                                [@[k] EXCEPT !.got = Append(@, appendBar(value))]]]

\* task1.map { str => runs += 1; str + "bar" }
map(tk) ==
    LET tk1 == [tk EXCEPT !.made = TRUE]
    IN IF tk.result # <<>> THEN complete(tk1, tk.result[1]) ELSE tk1

\* task1.setComplete(Success(value))
setComplete(tk, value) ==
    LET tk1 == [tk EXCEPT !.result = <<value>>]
    IN IF tk.made THEN complete(tk1, value) ELSE tk1

\* addProgressListener of a mapped task that maps again for a late listener
addProgressListenerMapsAgain(tk, kind) ==
    IF tk.result # <<>>
    THEN [tk EXCEPT !.runs = @ + 1,
                    !.listeners = Append(@, [kind |-> kind, got |-> <<appendBar(tk.result[1])>>])]
    ELSE [tk EXCEPT !.listeners = Append(@, [kind |-> kind, got |-> <<>>])]

\* task2.addProgressListener(listener)
addProgressListener(tk, kind) ==
    [tk EXCEPT !.listeners = Append(@, [kind |-> kind, got |-> tk.savedResult])]

(***************************************************************************)
(* The input detection of bindEventListeners (lines 1621-1656).  The       *)
(* closure variable time of mousemoveHandler is undefined until the        *)
(* handler has run (timeSet); sinceTime is performance.now() - time in     *)
(* milliseconds, counted as far as the window.  moved and sinceMove record *)
(* the last mousemove event of the document, heard or not.                 *)
(***************************************************************************)
MoveWindow == 20

touchInit ==
    [ dynamicInputDetection |-> TRUE,   \* browser.dynamicInputDetection
      listening |-> FALSE,              \* mousemoveHandler is on document
      timeSet |-> FALSE,
      sinceTime |-> 0,
      moved |-> FALSE,
      sinceMove |-> 0,
      change |-> "none" ]               \* the last browser.onUserInputChange call

touchHandler(r) ==
    IF r.usingTouch THEN r
    ELSE [ usingTouch |-> TRUE,
           touch |-> [r.touch EXCEPT !.listening = @ \/ r.touch.dynamicInputDetection,
                                     !.change = "touch"] ]

\* mousemoveHandler without the test of the time difference
mousemoveHandlerNoWindow(r) ==
    [ usingTouch |-> FALSE,
      touch |-> [r.touch EXCEPT !.listening = FALSE, !.change = "mouse",
                                !.timeSet = TRUE, !.sinceTime = 0] ]

mousemoveHandler(r) ==
    LET r1 == IF r.touch.timeSet /\ r.touch.sinceTime < MoveWindow
              THEN [ usingTouch |-> FALSE,
                     touch |-> [r.touch EXCEPT !.listening = FALSE, !.change = "mouse"] ]
              ELSE r
    IN [r1 EXCEPT !.touch.timeSet = TRUE, !.touch.sinceTime = 0]

InputState == [usingTouch |-> usingTouch, touch |-> [touch EXCEPT !.change = "none"]]

\* a touchstart (or pointerdown) event on the document
Touchstart ==
    /\ LET r == touchHandler(InputState)
       IN usingTouch' = r.usingTouch /\ touch' = r.touch
    /\ UNCHANGED <<inst, body, thrown, factory, page, popperStyle, conv, task, closeFile, element, shared, reg>>

\* a mousemove event on the document
Mousemove ==
    /\ LET r == IF touch.listening THEN mousemoveHandler(InputState) ELSE InputState
       IN /\ usingTouch' = r.usingTouch
          /\ touch' = [r.touch EXCEPT !.moved = TRUE, !.sinceMove = 0]
    /\ UNCHANGED <<inst, body, thrown, factory, page, popperStyle, conv, task, closeFile, element, shared, reg>>

\* a millisecond passes
Elapse ==
    /\ touch.sinceTime < MoveWindow \/ touch.sinceMove < MoveWindow
    /\ touch' = [touch EXCEPT !.change = "none",
                              !.sinceTime = IF @ < MoveWindow THEN @ + 1 ELSE @,
                              !.sinceMove = IF @ < MoveWindow THEN @ + 1 ELSE @]
    /\ UNCHANGED <<inst, body, usingTouch, thrown, factory, page, popperStyle, conv, task,
                   closeFile, element, shared, reg>>

(***************************************************************************)
(* CloseFileHandler: one actor per text/closeFile request.  The mailbox    *)
(* holds the messages in their order of arrival; the actor handles one     *)
(* message per step with the behaviour of its stage.  A stopped actor      *)
(* handles nothing: what is in its mailbox or arrives later is a dead      *)
(* letter.  arrived records the order of arrival.                          *)
(***************************************************************************)
MaxAnswers == 2

Ids == {1, 2}

Clients == {"client1", "client2"}

Message(msg, id, from) == [msg |-> msg, id |-> id, from |-> from]

closeFileInit ==
    [ stage |-> "request",
      id |-> 0,
      replyTo |-> "none",
      requested |-> FALSE,              \* the client has sent its Request
      mailbox |-> <<>>,
      arrived |-> <<>>,
      toRegistry |-> 0,                 \* TextProtocol.CloseFile messages sent
      answers |-> 0,                    \* answers of the buffer registry
      cancellable |-> "none",           \* none, scheduled, fired or cancelled
      replies |-> <<>>,                 \* the messages sent to replyTo
      deadLetters |-> 0 ]

\* requestStage (lines 33-39)
requestStage(h, m) ==
    IF m.msg = "Request"
    THEN [h EXCEPT !.toRegistry = @ + 1,
                   !.cancellable = "scheduled",
                   !.stage = "response",
                   !.id = m.id,
                   !.replyTo = m.from]
    ELSE h

cancel(c) == IF c = "scheduled" THEN "cancelled" ELSE c

\* responseStage that goes on receiving after its reply
responseStageNoStop(h, m) ==
    CASE m.msg = "RequestTimeout"
           -> [h EXCEPT !.replies = Append(@, Message("ServiceError", h.id, h.replyTo))]
      [] m.msg = "FileClosed"
           -> [h EXCEPT !.replies = Append(@, Message("ResponseResult", h.id, h.replyTo)),
                        !.cancellable = cancel(@)]
      [] m.msg = "FileNotOpened"
           -> [h EXCEPT !.replies = Append(@, Message("FileNotOpenedError", h.id, h.replyTo)),
                        !.cancellable = cancel(@)]
      [] OTHER -> h

\* responseStage (lines 41-61); "from" of a reply is the actor it is sent to
responseStage(h, m) ==
    CASE m.msg = "RequestTimeout"
           -> [h EXCEPT !.replies = Append(@, Message("ServiceError", h.id, h.replyTo)),
                        !.stage = "stopped"]
      [] m.msg = "FileClosed"
           -> [h EXCEPT !.replies = Append(@, Message("ResponseResult", h.id, h.replyTo)),
                        !.cancellable = cancel(@),
                        !.stage = "stopped"]
      [] m.msg = "FileNotOpened"
           -> [h EXCEPT !.replies = Append(@, Message("FileNotOpenedError", h.id, h.replyTo)),
                        !.cancellable = cancel(@),
                        !.stage = "stopped"]
      [] OTHER -> h

\* a message reaches the actor
deliver(h, m) ==
    IF h.stage = "stopped" THEN [h EXCEPT !.deadLetters = @ + 1]
    ELSE [h EXCEPT !.mailbox = Append(@, m), !.arrived = Append(@, m)]

CloseFileFrame ==
    UNCHANGED <<inst, body, usingTouch, thrown, factory, page, popperStyle, conv, task,
                touch, element, shared, reg>>

\* the client sends the request the handler was created for
SendRequest(id, client) ==
    /\ ~closeFile.requested
    /\ closeFile' = [deliver(closeFile, Message("Request", id, client))
                        EXCEPT !.requested = TRUE]
    /\ CloseFileFrame

\* the buffer registry answers a TextProtocol.CloseFile
RegistryAnswers(msg) ==
    /\ closeFile.toRegistry > 0
    /\ closeFile.answers < MaxAnswers
    /\ closeFile' = [deliver(closeFile, Message(msg, 0, "bufferRegistry"))
                        EXCEPT !.answers = @ + 1]
    /\ CloseFileFrame

\* the scheduler sends RequestTimeout unless the timer was cancelled
TimeoutFires ==
    /\ closeFile.cancellable = "scheduled"
    /\ closeFile' = [deliver(closeFile, Message("RequestTimeout", 0, "scheduler"))
                        EXCEPT !.cancellable = "fired"]
    /\ CloseFileFrame

\* the actor handles the next message of its mailbox; when it stops, the
\* rest of the mailbox becomes dead letters
Receive ==
    /\ closeFile.stage # "stopped"
    /\ closeFile.mailbox # <<>>
    /\ LET m == Head(closeFile.mailbox)
           h0 == [closeFile EXCEPT !.mailbox = Tail(@)]
           h1 == IF h0.stage = "request" THEN requestStage(h0, m) ELSE responseStage(h0, m)
       IN closeFile' = IF h1.stage = "stopped"
                       THEN [h1 EXCEPT !.deadLetters = @ + Len(h1.mailbox),
                                       !.mailbox = <<>>]
                       ELSE h1
    /\ CloseFileFrame

(***************************************************************************)
(* The label attributes of one reference element through createTooltips    *)
(* (lines 1535-1545), the dynamicTitle observer (1567-1584) and destroy()  *)
(* (1044-1049).  An attribute is Null when absent, else its string.        *)
(* setAttribute stores the string of its argument: null becomes "null".    *)
(***************************************************************************)
Titles == {Null, Str(""), Str("t"), Str("u"), Str("v")}

elementInit ==
    [ title |-> Str("t"),
      dataOriginalTitle |-> Null,
      dataTippy |-> Null,
      html |-> FALSE,                   \* options.html is set
      dynamicTitle |-> FALSE,           \* options.dynamicTitle
      stage |-> "plain",                \* "plain", "created", "destroyed"
      before |-> Str("t") ]             \* the title the element had before tippy()

\* String(value), as setAttribute stores it
String(val) == IF val.type = "null" THEN Str("null") ELSE Str(val.v)

removeTitle(el) ==
    LET title == el.title
        el1 == IF Truthy(title) THEN [el EXCEPT !.dataOriginalTitle = String(title)] ELSE el
    IN [el1 EXCEPT !.title = Null]

\* createTooltips on the element: lines 1535-1545
createTooltipsTitle(el) ==
    IF ~Truthy(el.title) /\ ~el.html /\ ~el.dynamicTitle THEN el
    ELSE removeTitle([el EXCEPT !.dataTippy = Str(""), !.stage = "created"])

\* the MutationObserver callback of a dynamicTitle instance
titleCallback(el) == IF Truthy(el.title) THEN removeTitle(el) ELSE el

\* the title and attribute part of Tippy.destroy
destroyTitle(el) ==
    [el EXCEPT !.title = String(el.dataOriginalTitle),
               !.dataOriginalTitle = Null,
               !.dataTippy = Null,
               !.stage = "destroyed"]

ElementFrame ==
    UNCHANGED <<inst, body, usingTouch, thrown, factory, page, popperStyle, conv, task,
                touch, closeFile, shared, reg>>

\* tippy(element, options)
CreateOn ==
    /\ element.stage = "plain"
    /\ element' = createTooltipsTitle(element)
    /\ ElementFrame

\* the page sets the title attribute of the reference
SetTitle(title) ==
    /\ element.stage = "created"
    /\ title # Null
    /\ LET el == [element EXCEPT !.title = title]
       IN element' = IF element.dynamicTitle THEN titleCallback(el) ELSE el
    /\ ElementFrame

\* instance.destroy()
DestroyOn ==
    /\ element.stage = "created"
    /\ element' = destroyTitle(element)
    /\ ElementFrame

(***************************************************************************)
(* The options of the instances of one collection: createTooltips (lines   *)
(* 1529-1534) hands evaluateOptions either the collection's own options    *)
(* object (performance) or the fresh object getIndividualOptions returns.  *)
(* evaluateOptions of the bundled build (513-528) assigns to the object it *)
(* is given; that of the module build (utils.js 631-647) returns a new     *)
(* one.  An instance whose options object is the collection's (alias)      *)
(* reads whatever that object holds.                                       *)
(***************************************************************************)
Fn == [type |-> "function", v |-> ""]

El(name) == [type |-> "element", v |-> name]

Call(fn, arg, reference) == [fn |-> fn, arg |-> arg, for |-> reference]

sharedInit ==
    [ build |-> "bundle",
      performance |-> FALSE,
      original |-> [html |-> Undefined, appendTo |-> El("body")],
      config |-> [html |-> Undefined, appendTo |-> El("body")],
      rest |-> <<>>,                    \* the references still to be created
      instances |-> <<>>,               \* reference, options object, alias
      calls |-> <<>> ]                  \* the calls of option functions

\* evaluateOptions of the bundled build: the object after the assignments,
\* and the calls made
evaluateOptions(reference, options) ==
    LET a == options.appendTo.type = "function"
        h == options.html.type = "function"
    IN [ options |-> [ appendTo |-> IF a THEN El("appendTo()") ELSE options.appendTo,
                       html |-> IF h THEN El(reference) ELSE options.html ],
         calls |-> (IF a THEN <<Call("appendTo", "none", reference)>> ELSE <<>>)
                   \o (IF h THEN <<Call("html", reference, reference)>> ELSE <<>>) ]

\* evaluateOptions of the module build
evaluateOptionsModule(reference, options) ==
    LET a == options.appendTo.type = "function"
        h == options.html.type = "function"
    IN [ options |-> [ appendTo |-> IF a THEN El("appendTo()") ELSE options.appendTo,
                       html |-> IF h THEN El(reference) ELSE options.html ],
         calls |-> (IF a THEN <<Call("appendTo", reference, reference)>> ELSE <<>>)
                   \o (IF h THEN <<Call("html", reference, reference)>> ELSE <<>>) ]

\* the options of one reference: line 1533, or the module's pure function
createOptions(sh) ==
    LET reference == Head(sh.rest)
    IN IF sh.build = "module"
       THEN LET ev == evaluateOptionsModule(reference, sh.config)
            IN [sh EXCEPT !.rest = Tail(@),
                          !.instances = Append(@, [reference |-> reference,
                                                   options |-> ev.options, alias |-> FALSE]),
                          !.calls = @ \o ev.calls]
       ELSE LET ev == evaluateOptions(reference, sh.config)
            IN IF sh.performance
               THEN [sh EXCEPT !.rest = Tail(@),
                               !.config = ev.options,
                               !.instances = Append(@, [reference |-> reference,
                                                        options |-> ev.options,
                                                        alias |-> TRUE]),
                               !.calls = @ \o ev.calls]
               ELSE [sh EXCEPT !.rest = Tail(@),
                               !.instances = Append(@, [reference |-> reference,
                                                        options |-> ev.options,
                                                        alias |-> FALSE]),
                               !.calls = @ \o ev.calls]

\* the options an instance reads
OptionsOf(sh, k) == IF sh.instances[k].alias THEN sh.config ELSE sh.instances[k].options

EvaluateNext ==
    /\ shared.rest # <<>>
    /\ shared' = createOptions(shared)
    /\ UNCHANGED <<inst, body, usingTouch, thrown, factory, page, popperStyle, conv, task,
                   touch, closeFile, element, reg>>

(***************************************************************************)
(* The listeners of a trigger option, registered name by name: the reduce  *)
(* of createTooltips over createTrigger (lines 386-429, 1557-1560) in the  *)
(* bundled build, addEventListeners (utils.js 216-266) in the module       *)
(* build, without a delegation target.  registered is what the reference's *)
(* addEventListener holds: a second registration of the same event and     *)
(* handler is dropped.  The handlers onTrigger, onMouseLeave and onBlur of  *)
(* the module build go by the names of the bundled build.                   *)
(***************************************************************************)
Listener(event, handler) == [event |-> event, handler |-> handler]

TriggerNames == {"mouseenter", "focus", "click", "manual"}

\* options.trigger.trim().split(' ')
TriggerLists ==
    {<<n>> : n \in TriggerNames} \cup {<<n, m>> : n \in TriggerNames, m \in TriggerNames}

regInit ==
    [ build |-> "bundle",               \* "bundle" (Framework.js), "module" (utils.js)
      trigger |-> <<"manual">>,
      touchHold |-> FALSE,
      rest |-> <<>>,                    \* the names still to be reduced
      closure |-> <<>>,                 \* the listeners array of addEventListeners
      listeners |-> <<>>,               \* the accumulator: the instance's listener list
      registered |-> {} ]

\* createTrigger as the list of listener objects it returns
createTriggerListeners(eventType, touchHold) ==
    IF eventType = "manual" THEN <<>>
    ELSE <<Listener(eventType, "handleTrigger")>>
         \o (IF eventType = "mouseenter"
             THEN (IF supportsTouch /\ touchHold
                   THEN <<Listener("touchstart", "handleTrigger"),
                          Listener("touchend", "handleMouseleave")>>
                   ELSE <<>>)
                  \o <<Listener("mouseleave", "handleMouseleave")>>
             ELSE <<>>)
         \o (IF eventType = "focus" THEN <<Listener("blur", "handleBlur")>> ELSE <<>>)

Range(q) == {q[k] : k \in 1..Len(q)}

\* one step of the reduce of the bundled build
reduceBundle(r) ==
    LET made == createTriggerListeners(Head(r.rest), r.touchHold)
    IN [r EXCEPT !.rest = Tail(@),
                 !.listeners = @ \o made,
                 !.registered = @ \cup Range(made)]

\* one step of the reduce of addEventListeners: the switch has no break, and
\* listeners is one array for every step
reduceModule(r) ==
    LET eventType == Head(r.rest)
        made == IF eventType = "manual" THEN <<>>
                ELSE <<Listener(eventType, "handleTrigger")>>
                     \o (IF eventType = "mouseenter"
                         THEN <<Listener("mouseleave", "handleMouseleave"),
                                Listener("blur", "handleBlur")>>
                         ELSE IF eventType = "focus"
                         THEN <<Listener("blur", "handleBlur")>>
                         ELSE <<>>)
        closure == r.closure \o made
    IN [r EXCEPT !.rest = Tail(@),
                 !.closure = closure,
                 !.listeners = IF eventType = "manual" THEN @ ELSE @ \o closure,
                 !.registered = @ \cup Range(made)]

RegisterNext ==
    /\ reg.rest # <<>>
    /\ reg' = IF reg.build = "bundle" THEN reduceBundle(reg) ELSE reduceModule(reg)
    /\ UNCHANGED <<inst, body, usingTouch, thrown, factory, page, popperStyle, conv, task,
                   touch, closeFile, element, shared>>

pageInit ==
    [ _eventListenersBound |-> FALSE,   \* browser._eventListenersBound
      bindings |-> 0,                   \* bindEventListeners() calls so far
      idCounter |-> 1,
      tippys |-> <<>>,                  \* every Tippy made: id, reference, listeners
      collections |-> <<>>,             \* the objects tippy() returned
      threw |-> FALSE ]                 \* the last call raised

styleInit ==
    [ written |-> FALSE, placement |-> "top", pageX |-> 0, offset |-> 0,
      offsetWidth |-> 0, pageWidth |-> 0, x |-> 0 ]

(***************************************************************************)
(* followCursorListener (_setFollowCursorListener, lines 1353-1417): the   *)
(* x of the translate3d it writes.  Math.round of half a width that is not *)
(* negative is (width + 1) \div 2.                                         *)
(***************************************************************************)
PADDING == 5

MaxPage == 14

MaxOffset == 1

Placements == {"top", "bottom", "left", "right"}

\* event.pageX: the page's edges, the padding lines and the middle
CursorXs == {0, PADDING, MaxPage \div 2, MaxPage - PADDING, MaxPage}

\* the widest poppers that fit in a page of MaxPage - 1 or MaxPage
Widths == (MaxPage - 2 * PADDING - 2)..(MaxPage - 2 * PADDING)

followCursorListener(placement, pageX, offset, offsetWidth, pageWidth) ==
    LET halfPopperWidth == (offsetWidth + 1) \div 2
        x0 == CASE placement = "top" -> pageX - halfPopperWidth + offset
                [] placement = "bottom" -> pageX - halfPopperWidth + offset
                [] placement = "left" -> pageX - 2 * halfPopperWidth
                [] placement = "right" -> pageX + 5
        isRightOverflowing == pageX + PADDING + halfPopperWidth + offset > pageWidth
        isLeftOverflowing == pageX - PADDING - halfPopperWidth + offset < 0
        x1 == IF placement \in {"top", "bottom"} /\ isRightOverflowing
              THEN pageWidth - PADDING - 2 * halfPopperWidth ELSE x0
    IN IF placement \in {"top", "bottom"} /\ isLeftOverflowing THEN PADDING ELSE x1

(***************************************************************************)
(* createTooltips (lines 1529-1598) over the element array.  r holds the   *)
(* module state, the instances made so far and the accumulator.  The       *)
(* function-valued options of evaluateOptions are not among the keys.      *)
(***************************************************************************)
\* createTooltips without the skip of a reference that has no title
RECURSIVE createTooltipsNoSkip(_, _, _, _)
createTooltipsNoSkip(els, config, selector, r) ==
    IF els = <<>> THEN r
    ELSE LET reference == Reference(Head(els), selector)
             options == IF Truthy(config.performance) THEN config
                        ELSE getIndividualOptions(reference, config)
             title == reference.title
             id == r.page.idCounter
             tippyNew == [id |-> id, reference |-> Head(els), options |-> options]
         IN createTooltipsNoSkip(Tail(els), config, selector,
               [ page |-> [r.page EXCEPT !.tippys = Append(@, tippyNew),
                                         !.idCounter = @ + 1],
                 inst |-> Append(r.inst,
                                 Tippy(toOptions(options), reference.refObj, title # "")),
                 acc |-> Append(r.acc, Len(r.inst) + 1) ])

\* createTooltips that never increments idCounter
RECURSIVE createTooltipsSameId(_, _, _, _)
createTooltipsSameId(els, config, selector, r) ==
    IF els = <<>> THEN r
    ELSE LET reference == Reference(Head(els), selector)
             options == IF Truthy(config.performance) THEN config
                        ELSE getIndividualOptions(reference, config)
             title == reference.title
         IN IF title = "" /\ ~Truthy(options.html) /\ ~Truthy(options.dynamicTitle)
            THEN createTooltipsSameId(Tail(els), config, selector, r)
            ELSE LET id == r.page.idCounter
                     tippyNew == [id |-> id, reference |-> Head(els), options |-> options]
                 IN createTooltipsSameId(Tail(els), config, selector,
                       [ page |-> [r.page EXCEPT !.tippys = Append(@, tippyNew)],
                         inst |-> Append(r.inst,
                                         Tippy(toOptions(options), reference.refObj, title # "")),
                         acc |-> Append(r.acc, Len(r.inst) + 1) ])

RECURSIVE createTooltips(_, _, _, _)
createTooltips(els, config, selector, r) ==
    IF els = <<>> THEN r
    ELSE LET reference == Reference(Head(els), selector)
             options == IF Truthy(config.performance) THEN config
                        ELSE getIndividualOptions(reference, config)
             title == reference.title
         IN IF title = "" /\ ~Truthy(options.html) /\ ~Truthy(options.dynamicTitle)
            THEN createTooltips(Tail(els), config, selector, r)
            ELSE LET id == r.page.idCounter
                     tippyNew == [id |-> id, reference |-> Head(els), options |-> options]
                 IN createTooltips(Tail(els), config, selector,
                       [ page |-> [r.page EXCEPT !.tippys = Append(@, tippyNew),
                                                 !.idCounter = @ + 1],
                         inst |-> Append(r.inst,
                                         Tippy(toOptions(options), reference.refObj, title # "")),
                         acc |-> Append(r.acc, Len(r.inst) + 1) ])

\* tippy() binding the document listeners on every call
tippy2BindsEveryCall(selector, options, r) ==
    LET page1 == [r.page EXCEPT !.bindings = @ + 1, !._eventListenersBound = TRUE]
        options1 == _extends(defaultsRaw, options)
        got == getArrayOfElementsV2(selector)
        made == createTooltips(got.els, options1, selector,
                               [page |-> page1, inst |-> r.inst, acc |-> <<>>])
    IN [ page |-> [made.page EXCEPT
                     !.threw = FALSE,
                     !.collections = Append(@, [selector |-> selector,
                                                options |-> options1,
                                                references |-> got.els,
                                                tooltips |-> made.acc])],
         inst |-> made.inst ]

(***************************************************************************)
(* tippy() of the bundled build (tippy$2, lines 1710-1758).  The returned  *)
(* object has no list of references; references records what              *)
(* getArrayOfElements(selector) gave.                                      *)
(***************************************************************************)
tippy2(selector, options, r) ==
    LET page1 == IF supported /\ ~r.page._eventListenersBound
                 THEN [r.page EXCEPT !.bindings = @ + 1, !._eventListenersBound = TRUE]
                 ELSE r.page
        options1 == _extends(defaultsRaw, options)
        got == getArrayOfElementsV2(selector)
    IN IF got.threw THEN [page |-> [page1 EXCEPT !.threw = TRUE], inst |-> r.inst]
       ELSE LET made == IF supported
                        THEN createTooltips(got.els, options1, selector,
                                            [page |-> page1, inst |-> r.inst, acc |-> <<>>])
                        ELSE [page |-> page1, inst |-> r.inst, acc |-> <<>>]
            IN [ page |-> [made.page EXCEPT
                             !.threw = FALSE,
                             !.collections = Append(@, [selector |-> selector,
                                                        options |-> options1,
                                                        references |-> got.els,
                                                        tooltips |-> made.acc])],
                 inst |-> made.inst ]

Create(selector, options) ==
    /\ Len(page.collections) < MaxCalls
    /\ LET r == tippy2(selector, options, [page |-> page, inst |-> ResetLog])
       IN inst' = r.inst /\ page' = r.page
    /\ thrown' = "none"
    /\ UNCHANGED <<body, usingTouch, factory, popperStyle, conv, task, touch, closeFile, element, shared, reg>>


\* destroyAll() that destroys the first tooltip only
destroyAllFirstOnly(c, r) ==
    [ inst |-> [i \in DOMAIN r.inst |->
                  IF r.page.collections[c].tooltips # <<>>
                     /\ i = Head(r.page.collections[c].tooltips)
                  THEN destroy(r.inst[i]) ELSE r.inst[i]],
      page |-> [r.page EXCEPT !.collections[c].tooltips = <<>>] ]

\* destroyAll() of a returned object (lines 1750-1755)
destroyAll(c, r) ==
    [ inst |-> [i \in DOMAIN r.inst |->
                  IF i \in Range(r.page.collections[c].tooltips)
                  THEN destroy(r.inst[i]) ELSE r.inst[i]],
      page |-> [r.page EXCEPT !.collections[c].tooltips = <<>>] ]

DestroyAll(c) ==
    /\ c \in 1..Len(page.collections)
    /\ LET r == destroyAll(c, [page |-> page, inst |-> ResetLog])
       IN /\ WithinBounds(r.inst)
          /\ inst' = r.inst
          /\ page' = r.page
          /\ body' = Appended(Keep(body, r.inst),
                              {i \in DOMAIN r.inst : r.inst[i].mounted /\ ~InBody(i)})
    /\ thrown' = "none"
    /\ UNCHANGED <<usingTouch, factory, popperStyle, conv, task, touch, closeFile, element, shared, reg>>

TippyCall(targets, suppliedOptions, one) ==
    /\ factory' = tippy(factory, targets, suppliedOptions, one)
    /\ UNCHANGED <<inst, body, usingTouch, thrown, page, popperStyle, conv, task, touch, closeFile, element, shared, reg>>

\* a later call of a method of the virtual reference tippy() returned
ReferenceCall(op, key) ==
    /\ factory.virtual.isVirtual
    /\ factory' = [factory EXCEPT !.virtual = referenceCall(@, op, key)]
    /\ UNCHANGED <<inst, body, usingTouch, thrown, page, popperStyle, conv, task, touch, closeFile, element, shared, reg>>

(***************************************************************************)
(* A mousemove on the document while instance i has its                    *)
(* followCursorListener there.  type is the type of lastTriggerEvent, one  *)
(* of the instance's triggers: after a focus the listener returns at       *)
(* once.  The popper fits in the page with the padding on both sides and   *)
(* the cursor is on the page.                                              *)
(***************************************************************************)
FollowCursorMove(i, type, placement, pageX, offset, offsetWidth, pageWidth) ==
    /\ inst[i].followCursorOnDoc
    /\ type \in inst[i].options.trigger
    /\ offsetWidth + 2 * PADDING <= pageWidth
    /\ pageX <= pageWidth
    /\ popperStyle' =
          IF type = "focus" THEN popperStyle
          ELSE [ written |-> TRUE, placement |-> placement, pageX |-> pageX,
                 offset |-> offset, offsetWidth |-> offsetWidth,
                 pageWidth |-> pageWidth,
                 x |-> followCursorListener(placement, pageX, offset,
                                            offsetWidth, pageWidth) ]
    /\ inst' = ResetLog
    /\ UNCHANGED <<body, usingTouch, thrown, factory, page, conv, task, touch, closeFile, element, shared, reg>>

\* the conversion function run on a reference with the one attribute
Convert ==
    /\ ~conv.done
    /\ conv' =
          [conv EXCEPT
             !.done = TRUE,
             !.result =
                CASE conv.fn = "getIndividualOptions" ->
                       getIndividualOptions(
                          [title |-> "t", refObj |-> FALSE,
                           attrs |-> [k \in {conv.key} |-> conv.valueAsString]],
                          defaultsRaw)[conv.key]
                  [] conv.fn = "getDataAttributeOptions" ->
                       getDataAttributeOptions(conv.key, conv.valueAsString)
                  [] conv.fn = "getDataAttributeOptionsReference" ->
                       getDataAttributeOptionsReference(conv.key, conv.valueAsString)]
    /\ UNCHANGED <<inst, body, usingTouch, thrown, factory, page, popperStyle, task, touch, closeFile, element, shared, reg>>

Map ==
    /\ ~task.made
    /\ task' = map(task)
    /\ UNCHANGED <<inst, body, usingTouch, thrown, factory, page, popperStyle, conv, touch, closeFile, element, shared, reg>>

SetComplete(value) ==
    /\ task.result = <<>>
    /\ task' = setComplete(task, value)
    /\ UNCHANGED <<inst, body, usingTouch, thrown, factory, page, popperStyle, conv, touch, closeFile, element, shared, reg>>

\* kind: the test's emptyListener, or the one that stores the answer
AddProgressListener(kind) ==
    /\ task.made
    /\ Len(task.listeners) < MaxListeners
    /\ task' = addProgressListener(task, kind)
    /\ UNCHANGED <<inst, body, usingTouch, thrown, factory, page, popperStyle, conv, touch, closeFile, element, shared, reg>>

InitTask ==
    /\ inst = <<>>
    /\ body = <<>>
    /\ usingTouch = FALSE
    /\ thrown = "none"
    /\ factory = factoryInit
    /\ page = pageInit
    /\ popperStyle = styleInit
    /\ conv = convInit
    /\ task = taskInit
    /\ touch = touchInit
    /\ closeFile = closeFileInit
    /\ element = elementInit
    /\ shared = sharedInit
    /\ reg = regInit

NextTask ==
    \/ Map
    \/ \E value \in Results : SetComplete(value)
    \/ \E kind \in {"empty", "answer"} : AddProgressListener(kind)

SpecTask == InitTask /\ [][NextTask]_vars

InitConvert ==
    /\ inst = <<>>
    /\ body = <<>>
    /\ usingTouch = FALSE
    /\ thrown = "none"
    /\ factory = factoryInit
    /\ page = pageInit
    /\ popperStyle = styleInit
    /\ conv \in ConvertInputs
    /\ task = taskInit
    /\ touch = touchInit
    /\ closeFile = closeFileInit
    /\ element = elementInit
    /\ shared = sharedInit
    /\ reg = regInit

NextConvert == Convert

SpecConvert == InitConvert /\ [][NextConvert]_vars

InitFactory ==
    /\ inst = <<>>
    /\ body = <<>>
    /\ usingTouch = FALSE
    /\ thrown = "none"
    /\ factory = factoryInit
    /\ page = pageInit
    /\ popperStyle = styleInit
    /\ conv = convInit
    /\ task = taskInit
    /\ touch = touchInit
    /\ closeFile = closeFileInit
    /\ element = elementInit
    /\ shared = sharedInit
    /\ reg = regInit

NextFactory ==
    \/ \E targets \in TargetSpecs, suppliedOptions \in SuppliedOptions, one \in BOOLEAN :
          TippyCall(targets, suppliedOptions, one)
    \/ \E op \in ReferenceOps, key \in AttributeKeys \cup ClassNames :
          ReferenceCall(op, key)

SpecFactory == InitFactory /\ [][NextFactory]_vars

InitWith(ids, profiles) ==
    /\ inst \in [ids -> {Tippy(p.options, p.refObj, p.title) : p \in profiles}]
    /\ body = <<>>
    /\ usingTouch = FALSE
    /\ thrown = "none"
    /\ factory = factoryInit
    /\ page = pageInit
    /\ popperStyle = styleInit
    /\ conv = convInit
    /\ task = taskInit
    /\ touch = touchInit
    /\ closeFile = closeFileInit
    /\ element = elementInit
    /\ shared = sharedInit
    /\ reg = regInit

Init == InitWith({"a"}, Profiles)

InitPair ==
    /\ \E c \in PairCollections :
          inst = [i \in {"a", "b"} |->
                    LET p == IF i = "a" THEN c[1] ELSE c[2]
                    IN Tippy(p.options, p.refObj, p.title)]
    /\ body = <<>>
    /\ usingTouch = FALSE
    /\ thrown = "none"
    /\ factory = factoryInit
    /\ page = pageInit
    /\ popperStyle = styleInit
    /\ conv = convInit
    /\ task = taskInit
    /\ touch = touchInit
    /\ closeFile = closeFileInit
    /\ element = elementInit
    /\ shared = sharedInit
    /\ reg = regInit

Next ==
    \/ \E i \in DOMAIN inst, d \in Durations : Show(i, d)
    \/ \E i \in DOMAIN inst, d \in Durations : Hide(i, d)
    \/ \E i \in DOMAIN inst : Destroy(i)
    \/ \E i \in DOMAIN inst : Enable(i)
    \/ \E i \in DOMAIN inst : Disable(i)
    \/ \E i \in DOMAIN inst, type \in EventTypes : RefEvent(i, type)
    \/ \E i \in DOMAIN inst, rt \in {"none", "popper", "other"} : Blur(i, rt)
    \/ \E target \in Targets : Click(target)
    \/ \E where \in [DOMAIN inst -> {"popper", "reference", "inside", "outside"}] : MouseMove(where)
    \/ BodyMouseleave
    \/ \E i \in DOMAIN inst : ShowTimeoutFire(i)
    \/ \E i \in DOMAIN inst : HideTimeoutFire(i)
    \/ Tick
    \/ \E i \in DOMAIN inst : PopperUpdate(i)
    \/ \E i \in DOMAIN inst : DeferredRun(i)
    \/ \E i \in DOMAIN inst : TransitionEnd(i)
    \/ \E i \in DOMAIN inst : Detach(i)
    \/ \E i \in DOMAIN inst : TitleMutation(i)
    \/ TouchStart
    \/ MouseMovesClose

Spec == Init /\ [][Next]_vars

\* one follow-cursor instance with the default triggers
FollowProfiles ==
    {Element([defaults EXCEPT !.followCursor = TRUE, !.duration = <<0>>])}

InitFollow == InitWith({"a"}, FollowProfiles)

NextFollow ==
    \/ \E i \in DOMAIN inst, type \in EventTypes : RefEvent(i, type)
    \/ \E i \in DOMAIN inst, rt \in {"none", "popper", "other"} : Blur(i, rt)
    \/ \E i \in DOMAIN inst : PopperUpdate(i)
    \/ \E i \in DOMAIN inst : DeferredRun(i)
    \/ \E i \in DOMAIN inst, type \in {"mouseenter", "focus"},
          placement \in Placements, pageWidth \in (MaxPage - 1)..MaxPage,
          pageX \in CursorXs, offset \in (0 - MaxOffset)..MaxOffset,
          offsetWidth \in Widths :
          FollowCursorMove(i, type, placement, pageX, offset, offsetWidth, pageWidth)

SpecFollow == InitFollow /\ [][NextFollow]_vars

\* with no delay and no transition the timers and transitionend never occur
NextPair ==
    \/ \E i \in DOMAIN inst, d \in Durations : Show(i, d)
    \/ \E i \in DOMAIN inst, d \in Durations : Hide(i, d)
    \/ \E i \in DOMAIN inst : Destroy(i)
    \/ \E i \in DOMAIN inst : Enable(i)
    \/ \E i \in DOMAIN inst : Disable(i)
    \/ \E i \in DOMAIN inst, type \in EventTypes : RefEvent(i, type)
    \/ \E i \in DOMAIN inst, rt \in {"none", "popper", "other"} : Blur(i, rt)
    \/ \E target \in Targets : Click(target)
    \/ \E i \in DOMAIN inst : PopperUpdate(i)
    \/ \E i \in DOMAIN inst : DeferredRun(i)
    \/ TouchStart
    \/ MouseMovesClose

SpecPair == InitPair /\ [][NextPair]_vars

\* the bundled build from the load of the module: no instance yet
InitCreate ==
    /\ inst = <<>>
    /\ body = <<>>
    /\ usingTouch = FALSE
    /\ thrown = "none"
    /\ factory = factoryInit
    /\ page = pageInit
    /\ popperStyle = styleInit
    /\ conv = convInit
    /\ task = taskInit
    /\ touch = touchInit
    /\ closeFile = closeFileInit
    /\ element = elementInit
    /\ shared = sharedInit
    /\ reg = regInit

\* the caller keeps hold of the instances of these references
Held == {"e1"}

NextCreate ==
    \/ \E selector \in Selectors, options \in Supplied : Create(selector, options)
    \/ \E c \in 1..MaxCalls : DestroyAll(c)
    \/ \E i \in DOMAIN inst : page.tippys[i].reference \in Held /\ Show(i, <<0>>)
    \/ \E i \in DOMAIN inst : page.tippys[i].reference \in Held /\ Destroy(i)

SpecCreate == InitCreate /\ [][NextCreate]_vars

(***************************************************************************)
(* Properties.                                                             *)
(***************************************************************************)
Has(q, e) == \E k \in 1..Len(q) : q[k] = e

Before(q, e1, e2) == \E k \in 1..Len(q) : q[k] = e1 /\ \E m \in (k + 1)..Len(q) : q[m] = e2

NoHook(q) == \A k \in 1..Len(q) : q[k] \notin Hooks

\* the steps that run _leave on instance i
LeaveStep(i) ==
    \/ /\ RefEvent(i, "mouseleave")
       /\ ~inst[i].options.interactive
       /\ ~(usingTouch /\ inst[i].options.touchHold)
    \/ Blur(i, "other") /\ ~usingTouch

\* C1: destroy() on an instance whose visible flag is true, enabled or not,
\* runs the onHide hook and makes visible false before it sets destroyed.
C1_DestroyPassesThroughHiding ==
    [][\A i \in DOMAIN inst :
          (~inst[i].destroyed /\ inst'[i].destroyed /\ inst[i].visible)
          => /\ ~inst'[i].visible
             /\ Before(inst'[i].log, "onHide", "destroyed")]_vars

\* C2: with delay-in d > 0 the show timer armed by _enter never fires, and
\* nothing but a public show() call shows the tooltip, before d ticks have
\* passed; when it fires on a live instance show() runs; a _leave that
\* arrives while the timer is pending on a hidden instance cancels it,
\* invokes nothing and leaves the instance hidden.
C2_ShowWaitsForDelay ==
    [][\A i \in DOMAIN inst :
          LET s == inst[i]
              d == s.options.delay[1]
          IN /\ ShowTimeoutFire(i) => s.sinceEnter >= d
             /\ (s.showTimeout # <<>> /\ s.sinceEnter < d /\ Has(inst'[i].log, "onShow"))
                => \E duration \in Durations : Show(i, duration)
             /\ (ShowTimeoutFire(i) /\ s.enabled /\ ~s.destroyed /\ s.attached
                                    /\ ~(s.options.dynamicTitle /\ ~s.originalTitle))
                => inst'[i].visible /\ inst'[i].log = <<"onShow">>
             /\ (LeaveStep(i) /\ s.showTimeout # <<>> /\ ~s.visible)
                => /\ inst'[i].showTimeout = <<>>
                   /\ ~inst'[i].visible
                   /\ inst'[i].log = <<>>]_vars

C2_Witness ==
    \E i \in DOMAIN inst :
        /\ inst[i].options.delay[1] = MaxDelay
        /\ inst[i].sinceEnter = MaxDelay
        /\ inst[i].showTimeout = <<>>
        /\ inst[i].visible
        /\ inst[i].log = <<"onShow">>

HidesOnClick(options) == options.hideOnClick = "true" \/ "focus" \in options.trigger

C4_NoHookAfterDestroyed ==
    [][\A i \in DOMAIN inst :
          inst[i].destroyed
          => /\ inst'[i].destroyed
             /\ inst'[i].visible = inst[i].visible
             /\ NoHook(inst'[i].log)]_vars

\* C4, amended: once destroyed is true it stays true, visible no longer
\* changes and onShow and onHide are never invoked again; onHidden and
\* onShown can still run, and only from the deferred hide check or the
\* transitionend listener that were registered before the destruction.
C4_DestroyedIsTerminal ==
    [][\A i \in DOMAIN inst :
          inst[i].destroyed
          => /\ inst'[i].destroyed
             /\ inst'[i].visible = inst[i].visible
             /\ ~Has(inst'[i].log, "onShow")
             /\ ~Has(inst'[i].log, "onHide")
             /\ inst'[i].log # <<>> => DeferredRun(i) \/ TransitionEnd(i)]_vars

C4_Witness ==
    \E i \in DOMAIN inst :
        /\ inst[i].destroyed
        /\ ~inst[i].visible
        /\ ~inst[i].mounted
        /\ inst[i].log = <<"onHidden">>

\* C5: a destroyed instance holds no resources: no show or hide timer is
\* pending, no listener of the instance is left on the reference, on
\* document or on document.body, and the Popper has been disposed.
C5_DestroyedHoldsNothing ==
    \A i \in DOMAIN inst :
        inst[i].destroyed
        => /\ inst[i].showTimeout = <<>>
           /\ inst[i].hideTimeout = <<>>
           /\ inst[i].refListeners = {}
           /\ ~inst[i].followCursorOnDoc
           /\ inst[i].interactiveL = 0
           /\ inst[i].popperInstance # "live"

\* C6: a document click outside every reference and every popper leaves no
\* instance visible that has hideOnClick = true or a focus trigger (stated
\* for the enabled, not destroyed instances, on which hide() acts).
C6_OutsideClickHidesAll ==
    [][Click([kind |-> "outside", id |-> "none"])
       => \A i \in DOMAIN inst :
             (/\ inst[i].visible /\ inst[i].enabled /\ ~inst[i].destroyed
              /\ HidesOnClick(inst[i].options))
             => ~inst'[i].visible]_vars

\* C7: enable() and disable() change the enabled flag and nothing else:
\* visible, destroyed, the timers and every other field of the instance,
\* the mounted poppers and the other instances stay as they were, and no
\* hook is invoked.
C7_EnableDisableOnlyEnabled ==
    [][\A i \in DOMAIN inst :
          (Enable(i) \/ Disable(i))
          => /\ inst' = [ResetLog EXCEPT ![i].enabled = inst'[i].enabled]
             /\ Enable(i) => inst'[i].enabled
             /\ Disable(i) => ~inst'[i].enabled
             /\ body' = body
             /\ thrown' = "none"]_vars

C7_Witness ==
    \E i \in DOMAIN inst :
        /\ ~inst[i].enabled
        /\ inst[i].visible
        /\ inst[i].hideTimeout # <<>>
        /\ inst[i].log = <<>>

\* C8: show() and hide() on a destroyed or disabled instance do nothing:
\* no error, no hook, and visible, the timers, the mounted state and every
\* other field keep their values.
C8_SilentNoOp ==
    [][\A i \in DOMAIN inst, duration \in Durations :
          ((Show(i, duration) \/ Hide(i, duration))
           /\ (inst[i].destroyed \/ ~inst[i].enabled))
          => /\ inst' = ResetLog
             /\ body' = body
             /\ thrown' = "none"]_vars

C8_Witness ==
    \E i \in DOMAIN inst :
        /\ ~inst[i].enabled
        /\ ~inst[i].destroyed
        /\ inst[i].visible
        /\ inst[i].mounted
        /\ inst[i].showTimeout # <<>>
        /\ inst[i].log = <<>>

\* C9 as stated: show() on an enabled, not destroyed instance whose
\* reference element is no longer contained in the document destroys the
\* instance: destroyed becomes true, visible is false, onShow is not
\* invoked, the popper is not mounted and no error is raised.
C9_DetachedShowDestroys ==
    [][\A i \in DOMAIN inst, duration \in Durations :
          (/\ inst[i].enabled /\ ~inst[i].destroyed
           /\ ~inst[i].attached /\ ~inst[i].refObj
           /\ Show(i, duration))
          => /\ inst'[i].destroyed
             /\ ~inst'[i].visible
             /\ ~Has(inst'[i].log, "onShow")
             /\ ~inst'[i].mounted
             /\ thrown' = "none"]_vars

\* C9, amended: show() on an enabled, not destroyed instance whose reference
\* is an element no longer contained in the document destroys the instance,
\* unless dynamicTitle is set and the reference has no title, in which case
\* show() returns before the test and changes nothing.  When it destroys,
\* destroyed becomes true, visible is false, onShow is not invoked, no
\* Popper callback is installed, the popper is not newly mounted (one that
\* was mounted stays until the deferred hide check) and no error is raised.
\* A virtual reference is never tested and is shown.
C9_DetachedElementShowDestroys ==
    [][\A i \in DOMAIN inst, duration \in Durations :
          (/\ inst[i].enabled /\ ~inst[i].destroyed /\ ~inst[i].attached
           /\ Show(i, duration))
          => IF inst[i].options.dynamicTitle /\ ~inst[i].originalTitle
             THEN inst' = ResetLog /\ body' = body /\ thrown' = "none"
             ELSE IF inst[i].refObj
             THEN inst'[i].visible /\ ~inst'[i].destroyed /\ Has(inst'[i].log, "onShow")
             ELSE /\ inst'[i].destroyed
                  /\ ~inst'[i].visible
                  /\ ~Has(inst'[i].log, "onShow")
                  /\ inst'[i].mounted = inst[i].mounted
                  /\ inst'[i].mountCb = inst[i].mountCb
                  /\ body' = body
                  /\ thrown' = "none"]_vars

C9_Witness ==
    \E i \in DOMAIN inst :
        /\ ~inst[i].attached /\ ~inst[i].refObj
        /\ inst[i].enabled
        /\ inst[i].destroyed
        /\ ~inst[i].visible
        /\ ~inst[i].mounted
        /\ inst[i].log = <<"destroyed">>

\* C10: a tippy() call whose options object holds a key that is not a key
\* of Defaults raises an error before any instance is made: the call
\* returns no instance and marks no reference, whatever the targets, the
\* other keys and the second argument are.
C10_UnknownKeyRaisesFirst ==
    [][\A targets \in TargetSpecs, suppliedOptions \in SuppliedOptions, one \in BOOLEAN :
          (/\ \E key \in DOMAIN suppliedOptions : key \notin DOMAIN Defaults
           /\ TippyCall(targets, suppliedOptions, one))
          => /\ factory'.threw
             /\ factory'.instances = <<>>
             /\ factory'.hasTippy = factory.hasTippy]_vars

C10_Witness ==
    /\ factory.threw
    /\ factory.instances = <<>>
    /\ factory.hasTippy # {}

\* what createTooltips resolves for a reference of a call
Resolved(name, selector, options) ==
    LET config == _extends(defaultsRaw, options)
    IN IF Truthy(config.performance) THEN config
       ELSE getIndividualOptions(Reference(name, selector), config)

\* the references createTooltips makes an instance for
Eligible(name, selector, options) ==
    \/ Reference(name, selector).title # ""
    \/ Truthy(Resolved(name, selector, options).html)
    \/ Truthy(Resolved(name, selector, options).dynamicTitle)

\* the tippys a step has made
NewTippys == (Len(page.tippys) + 1)..Len(page'.tippys)

C13_ManualOnePerReference ==
    [][\A selector \in Selectors, options \in Supplied :
          (/\ "trigger" \in DOMAIN options
           /\ options.trigger = Str("manual")
           /\ Create(selector, options))
          => /\ Len(page'.tippys) - Len(page.tippys)
                = Len(page'.collections[Len(page'.collections)].references)
             /\ \A k \in NewTippys : inst'[k].refListeners = {}]_vars

\* C13, amended: a call with trigger "manual" makes one instance for each
\* reference that has a title (or an html or dynamicTitle option) and none
\* for the others; an instance has no listener on its reference exactly
\* when the trigger resolved for it is "manual", which a data-tippy-trigger
\* attribute can change.
C13_ManualHasNoListeners ==
    [][\A selector \in Selectors, options \in Supplied :
          (/\ "trigger" \in DOMAIN options
           /\ options.trigger = Str("manual")
           /\ Create(selector, options))
          => LET references == page'.collections[Len(page'.collections)].references
             IN /\ Len(page'.tippys) - Len(page.tippys)
                   = Cardinality({j \in 1..Len(references) :
                                    Eligible(references[j], selector, options)})
                /\ \A k \in NewTippys :
                      inst'[k].refListeners = {}
                      <=> page'.tippys[k].options.trigger = Str("manual")]_vars

C13_Witness ==
    \E c \in 1..Len(page.collections) :
        /\ page.collections[c].options.trigger = Str("manual")
        /\ Len(page.collections[c].tooltips) = 3
        /\ \A k \in Range(page.collections[c].tooltips) :
              /\ page.tippys[k].options.trigger = Str("manual")
              /\ inst[k].refListeners = {}

\* C15: destroy() on a destroyed instance does nothing: no field of the
\* instance changes (reference attributes, listeners and Popper included),
\* no hook is invoked, nothing is mounted or removed, no error is raised.
C15_DestroyIdempotent ==
    [][\A i \in DOMAIN inst :
          (inst[i].destroyed /\ Destroy(i))
          => /\ inst' = ResetLog
             /\ body' = body
             /\ thrown' = "none"]_vars

C15_Witness ==
    \E i \in DOMAIN inst :
        /\ inst[i].destroyed
        /\ inst[i].visible
        /\ inst[i].mounted
        /\ inst[i].popperInstance = "destroyed"
        /\ inst[i].log = <<>>

\* C16: whatever the number of tippy() calls, and whether or not they make
\* an instance, bindEventListeners has run exactly once as soon as there
\* has been a call, and never before.
C16_BoundExactlyOnce ==
    /\ page.bindings = (IF page.collections = <<>> THEN 0 ELSE 1)
    /\ page._eventListenersBound <=> page.bindings = 1

C16_Witness ==
    /\ Len(page.collections) = MaxCalls
    /\ page.collections[1].tooltips = <<>>
    /\ page.collections[1].references = <<>>
    /\ page.tippys # <<>>
    /\ page.bindings = 1

C18_DestroyAllDestroysAll ==
    [][\A c \in 1..Len(page.collections) :
          DestroyAll(c)
          => /\ \A i \in Range(page.collections[c].tooltips) : inst'[i].destroyed
             /\ page'.collections[c].tooltips = <<>>
             /\ page.collections[c].tooltips = <<>>
                => inst' = ResetLog /\ page' = page /\ body' = body]_vars

C18_Witness ==
    \E c \in 1..Len(page.collections) :
        /\ page.collections[c].tooltips = <<>>
        /\ Len(page.collections[c].references) >= 3
        /\ \E i, j \in DOMAIN inst :
              /\ inst[i].log = <<"onHide", "destroyed">>
              /\ inst[j].log = <<"destroyed">>

\* C19: a tippy() call whose selector matches no element, or is not a valid
\* selector, raises nothing and returns an object with no reference and no
\* instance; no instance is made.
C19_EmptySelectorResult ==
    [][\A selector \in Selectors, options \in Supplied :
          (/\ selector.kind \in {"pattern", "invalid"}
           /\ selector.els = <<>>
           /\ Create(selector, options))
          => /\ ~page'.threw
             /\ Len(page'.collections) = Len(page.collections) + 1
             /\ page'.collections[Len(page'.collections)].references = <<>>
             /\ page'.collections[Len(page'.collections)].tooltips = <<>>
             /\ page'.tippys = page.tippys
             /\ inst' = ResetLog]_vars

C19_Witness ==
    \E c \in 1..Len(page.collections) :
        /\ page.collections[c].selector.kind = "invalid"
        /\ page.collections[c].references = <<>>
        /\ page.collections[c].tooltips = <<>>
        /\ ~page.threw

\* C20: the ids of the instances are strictly increasing in creation order
\* (hence unique), over all calls, skipped references included.
C20_IdsStrictlyIncreasing ==
    \A j, k \in 1..Len(page.tippys) :
        j < k => page.tippys[j].id < page.tippys[k].id

C20_Witness ==
    /\ Len(page.collections) = MaxCalls
    /\ page.collections[1].references = Document
    /\ Len(page.collections[1].tooltips) = 3
    /\ Len(page.tippys) >= 5
    /\ page.tippys[Len(page.tippys)].id = Len(page.tippys)

\* C12 as stated: a plain object, with or without an attributes field,
\* given to tippy() makes exactly one instance and a reference with
\* isVirtual = true, and no later setAttribute, getAttribute,
\* removeAttribute, classList.add, classList.remove or classList.contains
\* call on that reference raises.
C12_VirtualReferenceNeverRaises ==
    /\ [][\A targets \in TargetSpecs, suppliedOptions \in SuppliedOptions, one \in BOOLEAN :
            (/\ isPlainObject(targets)
             /\ DOMAIN suppliedOptions \subseteq DOMAIN Defaults
             /\ TippyCall(targets, suppliedOptions, one))
            => /\ Len(factory'.instances) = 1
               /\ factory'.virtual.isVirtual]_vars
    /\ [][\A op \in ReferenceOps, key \in AttributeKeys \cup ClassNames :
            ReferenceCall(op, key) => factory'.virtual.raised = "none"]_vars

\* C14 as stated: whatever the placement side, the x the follow-cursor
\* listener writes on a mousemove lies between PADDING and
\* pageWidth - PADDING - the popper's width, for every cursor position on
\* the page, offset and popper width that fits in the page.
C14_WithinPadding ==
    popperStyle.written
    => /\ PADDING <= popperStyle.x
       /\ popperStyle.x <= popperStyle.pageWidth - PADDING - popperStyle.offsetWidth

\* C21 as stated: whatever the option name, the text of a data-tippy-*
\* attribute is converted so: "true" and "false" to the booleans, the text
\* of a finite number to that number, a text beginning with "[" to an array,
\* and any other text is kept as it is.
C21_AttributeConversion ==
    (conv.done /\ conv.valueAsString # "")
    => LET text == conv.valueAsString
       IN /\ text = "true" => conv.result = Bool(TRUE)
          /\ text = "false" => conv.result = Bool(FALSE)
          /\ text \in NumericStrings => conv.result = Num(text)
          /\ text \in ArrayStrings \cup BracketStrings => conv.result.type = "array"
          /\ text \in {"click", "null"} => conv.result = Str(text)

C23_TimersDebounced ==
    \A i \in DOMAIN inst :
        /\ inst[i].showTimers = (IF inst[i].showTimeout # <<>> THEN 1 ELSE 0)
        /\ inst[i].hideTimers = (IF inst[i].hideTimeout # <<>> THEN 1 ELSE 0)
        /\ inst[i].showTimers + inst[i].hideTimers <= 1

\* a request-show has cleared a pending hide timer and set its show timer
C23_Witness ==
    \E i \in DOMAIN inst :
        /\ inst[i].cleared = {"hide"}
        /\ inst[i].showTimers = 1
        /\ inst[i].hideTimers = 0

\* the trigger events of the reference that run _enter
EnterTypes == {"mouseenter", "focus", "touchstart"}

\* C24 as stated: a trigger event on an enabled instance whose show timer
\* is pending, or which is visible, changes nothing: the timers, the
\* visible flag and the callbacks installed stay as they are and onShow is
\* not invoked.
C24_RequestShowIgnored ==
    [][\A i \in DOMAIN inst, type \in EnterTypes :
          (/\ inst[i].enabled
           /\ inst[i].showTimeout # <<>> \/ inst[i].visible
           /\ RefEvent(i, type))
          => /\ inst'[i].showTimeout = inst[i].showTimeout
             /\ inst'[i].hideTimeout = inst[i].hideTimeout
             /\ inst'[i].visible = inst[i].visible
             /\ inst'[i].mountCb = inst[i].mountCb
             /\ ~Has(inst'[i].log, "onShow")]_vars

\* C24, amended: a trigger event on an enabled instance first clears both
\* delay timers.  On a visible instance it does nothing else: the instance
\* stays visible, no hook is invoked, no callback is installed.  On an
\* instance that is not visible and has a delay it sets the show timer to
\* the full delay, also when a show timer was pending (the show is put
\* off), and invokes no hook.
C24_RequestShowRearms ==
    [][\A i \in DOMAIN inst, type \in EnterTypes :
          (inst[i].enabled /\ RefEvent(i, type))
          => /\ inst'[i].hideTimeout = <<>>
             /\ inst[i].visible
                => /\ inst'[i].visible
                   /\ inst'[i].showTimeout = <<>>
                   /\ inst'[i].mountCb = inst[i].mountCb
                   /\ inst'[i].log = <<>>
             /\ (~inst[i].visible /\ inst[i].options.delay[1] # 0)
                => /\ ~inst'[i].visible
                   /\ inst'[i].showTimeout = <<inst[i].options.delay[1]>>
                   /\ inst'[i].sinceEnter = 0
                   /\ inst'[i].isPreparingToShow
                   /\ inst'[i].log = <<>>]_vars

\* a trigger event has cleared a pending show timer and set it to the full
\* delay again
C24_Witness ==
    \E i \in DOMAIN inst :
        /\ inst[i].cleared = {"show"}
        /\ inst[i].showTimeout = <<MaxDelay>>
        /\ inst[i].options.delay[1] = MaxDelay

\* the steps in which a hide()'s deferred check, or the transitionend
\* listener it installed, runs
CheckStep(i) == DeferredRun(i) \/ TransitionEnd(i)

\* C25: when the deferred check of a hide() finds the instance visible
\* again, the popper stays mounted, the Popper's listeners stay as they are,
\* the instance stays visible and onHidden is not invoked; a check detaches
\* the listeners, removes the popper or invokes onHidden only on an instance
\* that is not visible, and then does all three.
C25_DeferredCheckSparesVisible ==
    [][\A i \in DOMAIN inst :
          /\ (inst[i].visible /\ CheckStep(i))
             => /\ inst'[i].visible
                /\ inst'[i].mounted = inst[i].mounted
                /\ inst'[i].popperListening = inst[i].popperListening
                /\ ~Has(inst'[i].log, "onHidden")
          /\ ((Has(inst'[i].log, "onHidden") \/ (inst[i].mounted /\ ~inst'[i].mounted))
              /\ CheckStep(i))
             => /\ ~inst[i].visible
                /\ inst[i].mounted /\ ~inst'[i].mounted
                /\ ~inst'[i].popperListening
                /\ Has(inst'[i].log, "onHidden")]_vars

\* show() has made the instance visible again and the check of the hide()
\* before it is still to run
C25_Witness ==
    \E i \in DOMAIN inst :
        /\ inst[i].visible
        /\ inst[i].mounted
        /\ inst[i].popperListening
        /\ inst[i].deferred # <<>>
        /\ inst[i].log = <<"onShow">>

(***************************************************************************)
(* One sticky instance with the default durations, driven by show(),       *)
(* hide(), enable(), disable() and destroy().  The browser runs every      *)
(* frame, timeout and Popper pass it has scheduled and ends every          *)
(* transition it has started: these steps are weakly fair.                 *)
(***************************************************************************)
LiveProfiles == {Element([defaults EXCEPT !.sticky = TRUE])}

InitLive == InitWith({"a"}, LiveProfiles)

NextLive ==
    \/ \E d \in Durations : Show("a", d)
    \/ \E d \in Durations : Hide("a", d)
    \/ Destroy("a")
    \/ Enable("a")
    \/ Disable("a")
    \/ PopperUpdate("a")
    \/ DeferredRun("a")
    \/ TransitionEnd("a")
    \/ StickyFrame("a")

FairLive ==
    /\ WF_vars(PopperUpdate("a"))
    /\ WF_vars(DeferredRun("a"))
    /\ WF_vars(TransitionEnd("a"))
    /\ WF_vars(StickyFrame("a"))

SpecLive == InitLive /\ [][NextLive]_vars /\ FairLive

\* C26: whenever show() has made a hidden tooltip's instance visible (onShow
\* was invoked) and the instance stays visible, onShown is eventually
\* invoked.
C26_ShownEventually ==
    (inst["a"].visible /\ Has(inst["a"].log, "onShow") /\ inst["a"].dataState = "hidden")
        ~> (Has(inst["a"].log, "onShown") \/ ~inst["a"].visible \/ inst["a"].destroyed)

\* C27: after the instance has left Visible (a hide, or a destroy) and is not
\* shown again, every scheduled run of the sticky updatePosition eventually
\* stops rescheduling itself.
C27_StickyStops ==
    (~inst["a"].visible \/ inst["a"].destroyed)
        ~> (inst["a"].stickyLoops = 0 \/ (inst["a"].visible /\ ~inst["a"].destroyed))

\* C28: a click on the reference of an enabled click-triggered instance
\* issues a request-hide (the tooltip is hidden, or the hide timer armed)
\* when the instance is visible and a request-show otherwise; with
\* hideOnClick 'persistent' it issues no request-hide and never takes a
\* visible instance out of visible.
ClickOnReference(i) == Click([kind |-> "reference", id |-> i])

C28_ClickToggles ==
    [][\A i \in DOMAIN inst :
         (/\ inst[i].enabled
          /\ ~inst[i].destroyed
          /\ "click" \in inst[i].options.trigger
          /\ ClickOnReference(i))
         => IF inst[i].options.hideOnClick = "persistent"
            THEN /\ inst[i].visible => inst'[i].visible
                 /\ ~Has(inst'[i].log, "onHide")
                 /\ inst'[i].hideTimers = 0
                 /\ ~inst[i].visible
                      => (inst'[i].isPreparingToShow
                          /\ (Has(inst'[i].log, "onShow") \/ inst'[i].showTimers = 1))
            ELSE IF inst[i].visible
            THEN \/ Has(inst'[i].log, "onHide") /\ ~inst'[i].visible
                 \/ inst'[i].hideTimers = 1 /\ inst'[i].visible
            ELSE /\ inst'[i].isPreparingToShow
                 /\ (Has(inst'[i].log, "onShow") \/ inst'[i].showTimers = 1)]_vars

\* a visible click-only instance whose hide timer a click has armed
C28_Witness ==
    \E i \in DOMAIN inst :
        /\ inst[i].options.trigger = {"click"}
        /\ inst[i].visible
        /\ inst[i].hideTimers = 1
        /\ inst[i].hideTimeout # <<>>

(***************************************************************************)
(* One interactive instance under the mouse: the events of its reference,  *)
(* the mousemove and body mouseleave listeners handleMouseleave installs,  *)
(* the delay timers and the callbacks of show() and hide().  The popper's  *)
(* box is fixed; the cursor takes positions on both sides of each          *)
(* threshold.  x-placement is missing until a Popper instance exists and   *)
(* names any side afterwards.                                              *)
(***************************************************************************)
PopperRect == [top |-> 20, bottom |-> 30, left |-> 20, right |-> 40]

ClientXs == {7, 8, 17, 18, 30, 43, 53}

ClientYs == {7, 8, 17, 18, 25, 33, 43}

MoveTargets == {"popper", "reference", "other"}

BorderProfiles ==
    { Element([defaults EXCEPT !.trigger = {"mouseenter"}, !.interactive = TRUE,
                               !.duration = <<0>>]),
      Element([defaults EXCEPT !.trigger = {"mouseenter"}, !.interactive = TRUE,
                               !.delay = <<1>>, !.duration = <<0>>]) }

\* a mousemove on the document at (x, y), seen by the closures of instance i
MouseMoveAt(i, target, x, y, placement) ==
    /\ inst[i].interactiveL > 0
    /\ placement = "none" <=> inst[i].popperInstance = "null"
    /\ target = "popper" => inst[i].mounted
    /\ On(i, handleMousemove(ResetLog[i], target = "popper", target = "reference",
                             cursorIsOutsideInteractiveBorder(x, y, placement, PopperRect,
                                                              inst[i].options)))

InitBorder == InitWith({"a"}, BorderProfiles)

NextBorder ==
    \/ \E type \in EventTypes : RefEvent("a", type)
    \/ \E target \in MoveTargets, x \in ClientXs, y \in ClientYs,
          placement \in Placements \cup {"none"} : MouseMoveAt("a", target, x, y, placement)
    \/ BodyMouseleave
    \/ ShowTimeoutFire("a")
    \/ HideTimeoutFire("a")
    \/ Tick
    \/ PopperUpdate("a")
    \/ DeferredRun("a")

SpecBorder == InitBorder /\ [][NextBorder]_vars

\* a request-hide of instance i in this step: _leave has hidden the tooltip,
\* armed the hide timer, cleared a pending timer, or was called by a
\* mousemove closure that removed itself
HideIssued(i) ==
    \/ Has(inst'[i].log, "onHide")
    \/ inst'[i].hideTimers > inst[i].hideTimers
    \/ inst'[i].cleared # {}
    \/ inst'[i].interactiveL < inst[i].interactiveL

\* the cursor is farther than interactiveBorder outside the popper's box on
\* some side, farther than interactiveBorder + distance on the placement's
FartherThanMargin(x, y, placement, options) ==
    \E side \in Placements :
        LET d == CASE side = "top" -> PopperRect.top - y
                   [] side = "bottom" -> y - PopperRect.bottom
                   [] side = "left" -> PopperRect.left - x
                   [] side = "right" -> x - PopperRect.right
        IN d > options.interactiveBorder + (IF side = placement THEN options.distance ELSE 0)

\* a mousemove the interactive border does not let through
NearMove(i) ==
    \E target \in MoveTargets, x \in ClientXs, y \in ClientYs,
       placement \in Placements \cup {"none"} :
        /\ target # "other" \/ ~FartherThanMargin(x, y, placement, inst[i].options)
        /\ MouseMoveAt(i, target, x, y, placement)

\* the same, of a popper that carries x-placement
NearMovePlaced(i) ==
    \E target \in MoveTargets, x \in ClientXs, y \in ClientYs, placement \in Placements :
        /\ target # "other" \/ ~FartherThanMargin(x, y, placement, inst[i].options)
        /\ MouseMoveAt(i, target, x, y, placement)

\* C29 as stated, for a visible tooltip: with interactive = true neither the
\* mouseleave from the reference nor any other event of its listeners issues
\* a request-hide, except a mousemove whose target is outside popper and
\* reference and whose cursor is farther than the margin from the popper's
\* box.
C29_HideOnlyAtFarMousemove ==
    [][\A i \in DOMAIN inst :
         (/\ inst[i].options.interactive
          /\ inst[i].visible
          /\ \/ inst[i].interactiveL > 0 /\ BodyMouseleave
             \/ RefEvent(i, "mouseleave")
             \/ inst[i].interactiveL > 0 /\ NearMove(i))
         => ~HideIssued(i)]_vars

\* C29, amended: with interactive = true the mouseleave from the reference
\* issues no request-hide, and no mousemove does while the popper carries
\* x-placement and the target is the popper or the reference or the cursor
\* is within the margin; a mousemove outside popper and reference that is
\* farther than the margin, or that finds no x-placement, and a mouseleave
\* of document.body each issue the request-hide of a visible instance.
C29_InteractiveHysteresis ==
    [][\A i \in DOMAIN inst :
         inst[i].options.interactive =>
           /\ (RefEvent(i, "mouseleave") \/ (inst[i].interactiveL > 0 /\ NearMovePlaced(i)))
                => ~HideIssued(i)
           /\ (/\ inst[i].interactiveL > 0
               /\ inst[i].visible
               /\ \/ BodyMouseleave
                  \/ \E x \in ClientXs, y \in ClientYs, placement \in Placements \cup {"none"} :
                        /\ placement = "none"
                             \/ FartherThanMargin(x, y, placement, inst[i].options)
                        /\ MouseMoveAt(i, "other", x, y, placement))
                => HideIssued(i)]_vars

\* the tooltip of an interactive instance hidden with the cursor's closure
\* removed: its mousemove went farther than the margin
C29_Witness ==
    \E i \in DOMAIN inst :
        /\ inst[i].options.interactive
        /\ inst[i].interactiveL = 0
        /\ ~inst[i].visible
        /\ inst[i].popperInstance = "live"
        /\ Has(inst[i].log, "onHide")

\* the clicked reference's instance as its own click listener leaves it
OwnAfterTrigger(i) ==
    IF "click" \in inst[i].refListeners
    THEN handleTrigger(ResetLog[i], "click")
    ELSE ResetLog[i]

InitTouch ==
    /\ inst = [i \in {} |-> 0]
    /\ body = <<>>
    /\ usingTouch = FALSE
    /\ thrown = "none"
    /\ factory = factoryInit
    /\ page = pageInit
    /\ popperStyle = styleInit
    /\ conv = convInit
    /\ task = taskInit
    /\ \E b \in BOOLEAN : touch = [touchInit EXCEPT !.dynamicInputDetection = b]
    /\ closeFile = closeFileInit
    /\ element = elementInit
    /\ shared = sharedInit
    /\ reg = regInit

NextTouch ==
    \/ Touchstart
    \/ Mousemove
    \/ Elapse

SpecTouch == InitTouch /\ [][NextTouch]_vars

\* C31: the using-touch flag is true after every touchstart; it returns to
\* false only at a mousemove that follows the previous mousemove of the
\* document by less than 20 ms; a mousemove with no mousemove before it, or
\* one that comes 20 ms or more after the previous one, leaves the flag as
\* it is; and mousemoveHandler is registered only while the flag is true.
C31_UsingTouch ==
    [][/\ Touchstart => usingTouch'
       /\ (usingTouch /\ ~usingTouch')
            => (Mousemove /\ touch.moved /\ touch.sinceMove < MoveWindow)
       /\ (Mousemove /\ (~touch.moved \/ touch.sinceMove >= MoveWindow))
            => usingTouch' = usingTouch
       /\ touch'.listening => usingTouch']_vars

\* the flag has just been cleared by the second of two close mousemoves
C31_Witness ==
    /\ ~usingTouch
    /\ touch.change = "mouse"
    /\ touch.timeSet
    /\ ~touch.listening

(***************************************************************************)
(* One reference element with any title, created with or without html and  *)
(* dynamicTitle, its title set by the page, then destroyed.                *)
(***************************************************************************)
InitTitle ==
    /\ inst = [i \in {} |-> 0]
    /\ body = <<>>
    /\ usingTouch = FALSE
    /\ thrown = "none"
    /\ factory = factoryInit
    /\ page = pageInit
    /\ popperStyle = styleInit
    /\ conv = convInit
    /\ task = taskInit
    /\ touch = touchInit
    /\ closeFile = closeFileInit
    /\ \E title \in Titles, html \in BOOLEAN, dynamicTitle \in BOOLEAN :
          element = [elementInit EXCEPT !.title = title, !.before = title,
                                        !.html = html, !.dynamicTitle = dynamicTitle]
    /\ shared = sharedInit
    /\ reg = regInit

NextTitle ==
    \/ CreateOn
    \/ \E title \in Titles : SetTitle(title)
    \/ DestroyOn

SpecTitle == InitTitle /\ [][NextTitle]_vars

\* C32: after destroy() the reference's title attribute equals the value it
\* had before the instance was created (absent if it was absent), and the
\* data-original-title and data-tippy attributes are gone.
C32_TitleRoundTrip ==
    element.stage = "destroyed"
        => /\ element.title = element.before
           /\ element.dataOriginalTitle = Null
           /\ element.dataTippy = Null

(***************************************************************************)
(* Every trigger option of one or two names, with and without touchHold,   *)
(* in both builds.                                                         *)
(***************************************************************************)
InitRegister ==
    /\ inst = [i \in {} |-> 0]
    /\ body = <<>>
    /\ usingTouch = FALSE
    /\ thrown = "none"
    /\ factory = factoryInit
    /\ page = pageInit
    /\ popperStyle = styleInit
    /\ conv = convInit
    /\ task = taskInit
    /\ touch = touchInit
    /\ closeFile = closeFileInit
    /\ element = elementInit
    /\ shared = sharedInit
    /\ \E build \in {"bundle", "module"}, trigger \in TriggerLists, touchHold \in BOOLEAN :
          reg = [regInit EXCEPT !.build = build, !.trigger = trigger, !.rest = trigger,
                                !.touchHold = touchHold]

NextRegister == RegisterNext

SpecRegister == InitRegister /\ [][NextRegister]_vars

\* the listeners the specification gives a trigger option
ExpectedListeners(trigger, touchHold) ==
    UNION { {Listener(n, "handleTrigger")}
            \cup (IF n = "mouseenter"
                  THEN {Listener("mouseleave", "handleMouseleave")}
                       \cup (IF touchHold
                             THEN {Listener("touchstart", "handleTrigger"),
                                   Listener("touchend", "handleMouseleave")}
                             ELSE {})
                  ELSE {})
            \cup (IF n = "focus" THEN {Listener("blur", "handleBlur")} ELSE {})
          : n \in Range(trigger) \ {"manual"} }

\* C33: once the trigger option has been gone through, the listeners
\* registered on the reference are exactly the specified ones, and the
\* instance's listener list holds each of them exactly once.
C33_ListenersExact ==
    reg.rest = <<>>
        => /\ reg.registered = ExpectedListeners(reg.trigger, reg.touchHold)
           /\ Range(reg.listeners) = reg.registered
           /\ Len(reg.listeners) = Cardinality(reg.registered)

(***************************************************************************)
(* A collection of two or three references whose html and appendTo options *)
(* are functions or values, with and without performance, in both builds.  *)
(***************************************************************************)
InitShared ==
    /\ inst = [i \in {} |-> 0]
    /\ body = <<>>
    /\ usingTouch = FALSE
    /\ thrown = "none"
    /\ factory = factoryInit
    /\ page = pageInit
    /\ popperStyle = styleInit
    /\ conv = convInit
    /\ task = taskInit
    /\ touch = touchInit
    /\ closeFile = closeFileInit
    /\ element = elementInit
    /\ \E build \in {"bundle", "module"}, performance \in BOOLEAN,
          html \in {Fn, El("template"), Undefined}, appendTo \in {Fn, El("body")},
          rest \in {<<"e1", "e2">>, <<"e1", "e2", "e3">>} :
          shared = [sharedInit EXCEPT !.build = build, !.performance = performance,
                                      !.original = [html |-> html, appendTo |-> appendTo],
                                      !.config = [html |-> html, appendTo |-> appendTo],
                                      !.rest = rest]
    /\ reg = regInit

NextShared == EvaluateNext

SpecShared == InitShared /\ [][NextShared]_vars

CallsFor(fn, reference) ==
    {k \in 1..Len(shared.calls) :
        shared.calls[k].fn = fn /\ shared.calls[k].for = reference}

\* C34: resolving the options of the references never modifies the
\* collection's options object, and each function-valued option (html,
\* appendTo) is evaluated exactly once for each instance, html with that
\* instance's own reference, whose result is the instance's option.
C34_OptionsNotShared ==
    /\ shared.config = shared.original
    /\ \A k \in 1..Len(shared.instances) :
          LET reference == shared.instances[k].reference
          IN /\ shared.original.html.type = "function"
                  => /\ Cardinality(CallsFor("html", reference)) = 1
                     /\ \A c \in CallsFor("html", reference) : shared.calls[c].arg = reference
                     /\ OptionsOf(shared, k).html = El(reference)
             /\ shared.original.appendTo.type = "function"
                  => Cardinality(CallsFor("appendTo", reference)) = 1

\* the instance is Hidden: not visible, its popper not in the document and
\* no show timer, Popper pass, deferred check or transition outstanding
HiddenAtRest(i) ==
    /\ ~inst[i].visible
    /\ ~inst[i].mounted
    /\ inst[i].showTimeout = <<>>
    /\ inst[i].mountCb = <<>>
    /\ inst[i].deferred = <<>>
    /\ ~inst[i].transitioning

\* C35: the follow-cursor mousemove listener on document is registered only
\* while the instance is Showing or Visible: whenever the instance is Hidden
\* with no show timer pending, the listener is not registered.
C35_FollowListenerOnlyWhileShown ==
    \A i \in DOMAIN inst : HiddenAtRest(i) => ~inst[i].followCursorOnDoc

\* the onShow and onHide callbacks among the callbacks of one step
ShowHideCalls(q) == SelectSeq(q, LAMBDA e : e \in {"onShow", "onHide"})

\* starting from the visible flag, every onShow finds it false and every
\* onHide finds it true
RECURSIVE Alternates(_, _)
Alternates(visible, q) ==
    IF q = <<>> THEN TRUE
    ELSE /\ Head(q) = (IF visible THEN "onHide" ELSE "onShow")
         /\ Alternates(~visible, Tail(q))

\* C36: onShow and onHide alternate, starting with onShow: in every step of
\* every sequence of show(), hide(), trigger events, timer firings and
\* document clicks, onShow is called only when the instance's visible flag
\* is false and onHide only when it is true.
C36_ShowHideAlternate ==
    [][\A i \in DOMAIN inst :
          Alternates(inst[i].visible, ShowHideCalls(inst'[i].log))]_vars

\* C37: whenever the visible flag of an instance is true after an operation
\* has returned, its popper is mounted in the document: show() mounts before
\* it returns, and no deferred check of a hide() removes the popper of an
\* instance that is visible when the check runs.
C37_VisibleIsMounted ==
    \A i \in DOMAIN inst : inst[i].visible => inst[i].mounted

\* the instance was shown again after a hide() whose check has been put off
\* to the transitionend and will run on the visible instance
C37_Witness ==
    \E i \in DOMAIN inst :
        /\ inst[i].visible
        /\ inst[i].mounted
        /\ inst[i].transitionendListener = "hidden"
        /\ inst[i].transitioning

\* C38: at most one sticky position-update loop runs for an instance at any
\* time, also when hide() is followed at once by show() within one frame.
C38_OneStickyLoop == inst["a"].stickyLoops <= 1

(***************************************************************************)
(* Two references, the first with an interactive tooltip that a document   *)
(* click would hide (hideOnClick = true), driven by show(), destroy(),     *)
(* clicks anywhere and the deferred steps.                                 *)
(***************************************************************************)
InteractiveCollections ==
    { <<Element([defaults EXCEPT !.interactive = TRUE, !.duration = <<0>>]), ClickOnly>>,
      <<Element([defaults EXCEPT !.interactive = TRUE, !.duration = <<0>>]),
        Element([defaults EXCEPT !.duration = <<0>>])>> }

InitInteractive ==
    /\ \E c \in InteractiveCollections :
          inst = [i \in {"a", "b"} |->
                    LET p == IF i = "a" THEN c[1] ELSE c[2]
                    IN Tippy(p.options, p.refObj, p.title)]
    /\ body = <<>>
    /\ usingTouch = FALSE
    /\ thrown = "none"
    /\ factory = factoryInit
    /\ page = pageInit
    /\ popperStyle = styleInit
    /\ conv = convInit
    /\ task = taskInit
    /\ touch = touchInit
    /\ closeFile = closeFileInit
    /\ element = elementInit
    /\ shared = sharedInit
    /\ reg = regInit

NextInteractive ==
    \/ \E i \in DOMAIN inst : Show(i, <<>>)
    \/ \E i \in DOMAIN inst : Destroy(i)
    \/ \E target \in Targets : Click(target)
    \/ \E i \in DOMAIN inst : PopperUpdate(i)
    \/ \E i \in DOMAIN inst : DeferredRun(i)

SpecInteractive == InitInteractive /\ [][NextInteractive]_vars

\* C39: a document click whose target lies inside the popper of an
\* interactive instance hides no instance: every instance's visible flag is
\* the same after the click as before it.
C39_ClickInInteractivePopper ==
    [][\A i \in DOMAIN inst :
          (inst[i].options.interactive /\ inst[i].mounted
           /\ Click([kind |-> "popper", id |-> i]))
          => \A j \in DOMAIN inst : inst'[j].visible = inst[j].visible]_vars

\* both tooltips are visible, the interactive one is mounted and the last
\* step called no callback: the click inside it has left both as they were
C39_Witness ==
    /\ inst["a"].options.interactive /\ inst["a"].mounted
    /\ inst["a"].visible /\ inst["b"].visible
    /\ inst["a"].mountCb = <<>> /\ inst["b"].mountCb = <<>>
    /\ inst["a"].deferred = <<>> /\ inst["b"].deferred = <<>>
    /\ inst["a"].log = <<>> /\ inst["b"].log = <<>>
    /\ thrown = "none"

(***************************************************************************)
(* One CloseFileHandler from its creation: the request of one client, the  *)
(* answers of the buffer registry and the timeout in every order of        *)
(* arrival.                                                                *)
(***************************************************************************)
InitCloseFile ==
    /\ inst = [i \in {} |-> 0]
    /\ body = <<>>
    /\ usingTouch = FALSE
    /\ thrown = "none"
    /\ factory = factoryInit
    /\ page = pageInit
    /\ popperStyle = styleInit
    /\ conv = convInit
    /\ task = taskInit
    /\ touch = touchInit
    /\ closeFile = closeFileInit
    /\ element = elementInit
    /\ shared = sharedInit
    /\ reg = regInit

NextCloseFile ==
    \/ \E id \in Ids, client \in Clients : SendRequest(id, client)
    \/ \E msg \in {"FileClosed", "FileNotOpened"} : RegistryAnswers(msg)
    \/ TimeoutFires
    \/ Receive

SpecCloseFile == InitCloseFile /\ [][NextCloseFile]_vars

\* the reply the handler owes for the message that ends the request
ReplyFor(msg) ==
    CASE msg = "FileClosed" -> "ResponseResult"
      [] msg = "FileNotOpened" -> "FileNotOpenedError"
      [] msg = "RequestTimeout" -> "ServiceError"

\* the answers and the timeout in their order of arrival
Outcomes == SelectSeq(closeFile.arrived, LAMBDA m : m.msg # "Request")

\* C40: the handler sends exactly one reply per request: never more than
\* one, and once it has stopped exactly one, to the sender of the request
\* and with the request's id: the result for FileClosed, FileNotOpenedError
\* for FileNotOpened, ServiceError for the timeout, whichever arrived first;
\* no later message produces a second reply.
C40_OneReply ==
    /\ Len(closeFile.replies) <= 1
    /\ closeFile.stage = "stopped" <=> Len(closeFile.replies) = 1
    /\ Len(closeFile.replies) = 1
         => /\ Outcomes # <<>>
            /\ closeFile.replies[1]
                 = Message(ReplyFor(Head(Outcomes).msg),
                           Head(closeFile.arrived).id, Head(closeFile.arrived).from)

\* the timeout and an answer of the registry raced: one was answered, the
\* other reached the stopped handler and produced no reply
C40_Witness ==
    /\ closeFile.stage = "stopped"
    /\ Len(closeFile.replies) = 1
    /\ closeFile.cancellable = "fired"
    /\ closeFile.answers > 0
    /\ closeFile.deadLetters > 0

============================================================================
